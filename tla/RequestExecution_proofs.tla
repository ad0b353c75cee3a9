---------------------- MODULE RequestExecution_proofs ----------------------
(***************************************************************************)
(* Proofs about the execution of one request, for any number of            *)
(* candidates, accounts and target keys, any budgets, delays and waits.    *)
(*                                                                         *)
(* ExecutionInv is inductive.  Most steps leave the schedule and the trail *)
(* alone; Choose, Send and a recovery change them, and what a recovery     *)
(* returns is stated once, in RecoverEffect.                               *)
(***************************************************************************)
EXTENDS RequestExecution, FiniteSetTheorems, WellFoundedInduction, TLAPS

LEMMA LeastNatural ==
    ASSUME NEW S \in SUBSET Nat, S # {}
    PROVE  \E c \in S : \A d \in S : c <= d
<1> DEFINE R == OpToRel(<, Nat)
<1>1. IsWellFoundedOn(R, Nat)
  BY NatLessThanWellFounded
<1> HIDE DEF R
<1>2. \E x \in S : \A y \in S : ~ (<<y, x>> \in R)
  BY <1>1, WFMin
<1>3. PICK x \in S : \A y \in S : <<y, x>> \notin R
  BY <1>2
<1>4. \A y, z \in Nat : <<y, z>> \in R <=> y < z
  BY DEF R, OpToRel
<1>5. ASSUME NEW y \in S PROVE x <= y
  <2>1. x \in Nat /\ y \in Nat
    OBVIOUS
  <2>2. ~(y < x)
    BY <1>3, <1>4, <2>1
  <2>3. QED
    BY <2>1, <2>2
<1>6. QED
  BY <1>5

\* The first of some candidates is one of them.
LEMMA EarliestIn ==
    ASSUME NEW S \in SUBSET Candidate, S # {}
    PROVE  Earliest(S) \in S
<1>1. S \in SUBSET Nat
  BY ExecutionAssumption DEF Candidate
<1>2. \E c \in S : \A d \in S : c <= d
  BY <1>1, LeastNatural
<1>3. QED
  BY <1>2 DEF Earliest

LEMMA BackoffType == ASSUME NEW n PROVE Backoff(n) \subseteq Nat
BY ExecutionAssumption DEF Backoff

LEMMA WaitTypes ==
    ASSUME NEW kind, NEW after \in RetryAfter
    PROVE  /\ Asked(kind, after) \in Nat /\ Cooldown(kind, after) \in Nat
           /\ AtLeast(after, InitialDelay) \in Nat
BY ExecutionAssumption DEF Asked, Cooldown, AtLeast

LEMMA OverloadWaitType == Asked("overload", 0) \in Nat
BY WaitTypes, ExecutionAssumption

\* NoNext is no candidate.
LEMMA NoNextIsNone == NoNext \notin Candidate
BY ExecutionAssumption DEF NoNext, Candidate

\* What a recovery leaves of the schedule, for the target i called last
RecoveryResult(i, out) ==
    /\ excluded' = excluded \union out /\ selected' = selected \union out
    /\ retryable' \subseteq (retryable \ out) \union {i}
    /\ i \in retryable' => i \notin excluded' /\ counts[i] <= MaxRetries[i]
    /\ nextIndex' \in Candidate \union {NoNext}
    /\ wait' \in [Candidate -> Nat] /\ maySwitch' \in BOOLEAN
    /\ UNCHANGED <<counts, total, nextRepair, repairing>>
    /\ total >= policy.limit => nextIndex' = NoNext /\ maySwitch' = maySwitch
    /\ total < policy.limit =>
         /\ nextIndex' # NoNext =>
               nextIndex' \in retryable' \/ nextIndex' \in Candidate \ (selected' \union {i})
         /\ policy.strategy # "failover_first" /\ nextIndex' # NoNext =>
               nextIndex' = i \/ nextIndex' \notin selected'
         /\ i \in retryable' => nextIndex' # NoNext
         /\ i \in retryable' /\ policy.strategy = "retry_first" => nextIndex' = i
         /\ maySwitch' => policy.enabled
         /\ maySwitch' /\ nextIndex' = NoNext =>
               Candidate = selected' \union {i}
               /\ (policy.strategy = "failover_first" => retryable' = {})
         /\ maySwitch' /\ nextIndex' \in selected' \union {i} /\ policy.strategy # "retry_first"
               => Candidate = selected' \union {i}

LEMMA RecoverEffect ==
    ASSUME TypeOK, NEW i \in Candidate, NEW action, NEW asked \in Nat,
           NEW out \in SUBSET Candidate, recover(i, action, asked, out)
    PROVE  RecoveryResult(i, out)
<1> USE DEF RecoveryResult
<1> DEFINE spent == total >= policy.limit
           canSwitch == AllowsFailover(action) /\ policy.enabled
           granted == i \notin excluded' /\ AllowsRetry(action) /\ WithinQuota(i)
           others == Candidate \ (selected' \union {i})
<1>1. PICK backoff \in Backoff(counts[i]) :
         LET delay == AtLeast(backoff, asked)
             again == granted /\ (spent \/ delay <= MaxDelay)
         IN /\ excluded' = excluded \union out
            /\ selected' = selected \union out
            /\ retryable' = ((retryable \ out) \ {i}) \union (IF again THEN {i} ELSE {})
            /\ nextIndex' = IF spent THEN NoNext
                            ELSE NextTarget(i, again, canSwitch, others, retryable')
            /\ wait' = IF spent THEN wait ELSE [wait EXCEPT ![i] = delay]
            /\ maySwitch' = IF spent THEN maySwitch ELSE canSwitch
            /\ UNCHANGED <<counts, total, nextRepair, repairing>>
  BY DEF recover
<1> DEFINE delay == AtLeast(backoff, asked)
           again == granted /\ (spent \/ delay <= MaxDelay)
<1>2. delay \in Nat
  BY BackoffType DEF AtLeast
<1>3. /\ excluded' = excluded \union out /\ selected' = selected \union out
      /\ UNCHANGED <<counts, total, nextRepair, repairing>>
      /\ retryable' = ((retryable \ out) \ {i}) \union (IF again THEN {i} ELSE {})
  BY <1>1
<1>4. again <=> i \in retryable'
  BY <1>3
<1>5. i \in retryable' => i \notin excluded' /\ counts[i] <= MaxRetries[i]
  BY <1>4 DEF WithinQuota
<1>6. wait' \in [Candidate -> Nat]
  BY <1>1, <1>2 DEF TypeOK
<1>7. again \in BOOLEAN /\ canSwitch \in BOOLEAN /\ (canSwitch => policy.enabled)
  BY DEF TypeOK, Policy, AllowsFailover
<1>8. retryable' \in SUBSET Candidate /\ others \in SUBSET Candidate /\ i \notin others
  BY <1>3 DEF TypeOK
<1>9. policy.strategy \in Strategy /\ maySwitch \in BOOLEAN
  BY DEF TypeOK, Policy
<1>10. maySwitch' = IF spent THEN maySwitch ELSE canSwitch
  BY <1>1
<1>11. nextIndex' = IF spent THEN NoNext ELSE NextTarget(i, again, canSwitch, others, retryable')
  BY <1>1
<1>12. total >= policy.limit <=> ~(total < policy.limit)
  BY DEF TypeOK, Policy
<1>13. CASE spent
  BY <1>3, <1>5, <1>6, <1>9, <1>10, <1>11, <1>12, <1>13
<1>14. CASE ~spent
  <2> DEFINE next == NextTarget(i, again, canSwitch, others, retryable')
  <2>1. nextIndex' = next /\ maySwitch' = canSwitch
    BY <1>10, <1>11, <1>14
  <2>2. /\ next \in Candidate \union {NoNext}
        /\ next # NoNext => (again /\ next = i) \/ next \in others \/ next \in retryable'
        /\ next # NoNext /\ policy.strategy # "failover_first" => (again /\ next = i) \/ next \in others
        /\ again => next # NoNext
        /\ again /\ policy.strategy = "retry_first" => next = i
        /\ canSwitch /\ others # {} /\ policy.strategy # "retry_first" => next \in others
        /\ canSwitch /\ others # {} => next # NoNext
        /\ canSwitch /\ retryable' # {} /\ policy.strategy = "failover_first" => next # NoNext
    <3>1. others # {} => Earliest(others) \in others
      BY <1>8, EarliestIn
    <3>2. retryable' # {} => Earliest(retryable') \in retryable'
      BY <1>8, EarliestIn
    <3> HIDE DEF again, canSwitch, others
    <3>3. QED
      BY <1>7, <1>8, <1>9, <3>1, <3>2, NoNextIsNone DEF NextTarget, Strategy
  <2> HIDE DEF again, canSwitch, next, spent
  <2>3. others = {} => Candidate = selected' \union {i}
    BY <1>3 DEF TypeOK
  <2>4. QED
    BY <1>3, <1>4, <1>5, <1>6, <1>7, <1>8, <1>12, <1>14, <2>1, <2>2, <2>3 DEF spent
<1>15. QED
  BY <1>13, <1>14

-----------------------------------------------------------------------------
(* Types                                                                   *)

LEMMA InitTypeOK == Init => TypeOK
<1> SUFFICES ASSUME Init PROVE TypeOK
  OBVIOUS
<1>1. policy \in Policy
  BY ExecutionAssumption DEF Init, newPolicy, Policy
<1>2. 1 \in Candidate /\ trail \in Seq(Attempt)
  BY ExecutionAssumption DEF Init, Candidate
<1>3. /\ counts \in [Candidate -> Nat] /\ wait \in [Candidate -> Nat] /\ cool \in [Key -> Nat]
      /\ reply \in Reply /\ maySwitch \in BOOLEAN
  BY <1>1 DEF Init, NoReply, Reply, Policy
<1>4. QED
  BY <1>1, <1>2, <1>3 DEF Init, TypeOK, PC, LastFailure

\* The steps that leave the schedule and the trail alone
LEMMA QuietStepKeepsTypes ==
    ASSUME TypeOK,
           \/ NoneLeft \/ Reject \/ RefuseRequest \/ RejectCooling \/ Respond \/ Commit
           \/ Deliver \/ Interrupted \/ Conclude \/ Cancel \/ Abandon
    PROVE  TypeOK'
<1>1. TargetKey[cur] \in Key
  BY DEF TypeOK, Key
<1>2. LateOverload => cool' \in [Key -> Nat]
  BY <1>1, OverloadWaitType DEF LateOverload, TypeOK, AtLeast
<1>3. CASE Deliver
  BY <1>2, <1>3 DEF Deliver, schedule, TypeOK, PC, Reply
<1>4. CASE Interrupted
  BY <1>2, <1>4 DEF Interrupted, schedule, TypeOK, PC, Reply
<1>5. CASE Conclude
  <2>1. reply' \in Reply
    BY <1>5 DEF Conclude, TypeOK, Reply
  <2>2. QED
    BY <1>5, <2>1 DEF Conclude, schedule, TypeOK, PC
<1>6. CASE RefuseRequest
  BY <1>6 DEF RefuseRequest, schedule, TypeOK, PC, Reply
<1>7. CASE NoneLeft \/ RejectCooling \/ Respond
  BY <1>7 DEF NoneLeft, RejectCooling, Respond, schedule, TypeOK, PC
<1>8. CASE Reject
  BY <1>8 DEF Reject, schedule, TypeOK, PC, LastFailure
<1>9. CASE Commit
  BY <1>9 DEF Commit, schedule, TypeOK, PC
<1>10. CASE Cancel
  BY <1>10 DEF Cancel, schedule, TypeOK, PC
<1>11. CASE Abandon
  BY <1>11 DEF Abandon, schedule, TypeOK, PC
<1>12. QED
  BY <1>3, <1>4, <1>5, <1>6, <1>7, <1>8, <1>9, <1>10, <1>11

LEMMA ClockKeepsTypes ==
    ASSUME TypeOK,
           \/ Elapse
           \/ \E k \in Key, after \in RetryAfter : RecordRateLimit(k, after)
           \/ \E c \in Candidate : ReleaseRateLimits(Service[c])
    PROVE  TypeOK'
<1>1. CASE Elapse
  BY <1>1 DEF Elapse, TypeOK
<1>2. ASSUME NEW k \in Key, NEW after \in RetryAfter, RecordRateLimit(k, after) PROVE TypeOK'
  <2>1. cool' \in [Key -> Nat]
    BY <1>2, WaitTypes DEF RecordRateLimit, TypeOK
  <2>2. QED
    BY <1>2, <2>1 DEF RecordRateLimit, schedule, TypeOK
<1>3. ASSUME NEW c \in Candidate, ReleaseRateLimits(Service[c]) PROVE TypeOK'
  <2>1. cool' \in [Key -> Nat]
    BY <1>3 DEF ReleaseRateLimits, TypeOK
  <2>2. QED
    BY <1>3, <2>1 DEF ReleaseRateLimits, schedule, TypeOK
<1>4. QED
  BY <1>1, <1>2, <1>3

LEMMA ChooseKeepsTypes == ASSUME TypeOK, Choose PROVE TypeOK'
<1>1. nextIndex \in Candidate
  BY DEF Choose, Ready, TypeOK
<1>2. selected' \subseteq Candidate /\ retryable' \subseteq Candidate
  BY <1>1 DEF Choose, TypeOK
<1>3. nextIndex' \in Candidate \union {NoNext}
  BY <1>2, EarliestIn DEF Choose, FallBack
<1>4. QED
  BY <1>1, <1>2, <1>3 DEF Choose, TypeOK, PC

LEMMA SendKeepsTypes == ASSUME TypeOK, Send PROVE TypeOK'
<1>1. trail' \in Seq(Attempt)
  BY DEF Send, TypeOK, Attempt
<1>2. counts' \in [Candidate -> Nat] /\ total' \in Nat
  BY DEF Send, TypeOK
<1>3. retryable' \subseteq Candidate
  BY DEF Send, OnceStarted, TypeOK
<1>4. QED
  BY <1>1, <1>2, <1>3 DEF Send, TypeOK, PC

LEMMA RecoveryKeepsTypes ==
    ASSUME TypeOK, NEW i \in Candidate, NEW action, NEW asked \in Nat,
           NEW out \in SUBSET Candidate, recover(i, action, asked, out)
    PROVE  /\ selected' \subseteq Candidate /\ retryable' \subseteq Candidate
           /\ excluded' \subseteq Candidate
           /\ counts' \in [Candidate -> Nat] /\ total' \in Nat
           /\ nextIndex' \in Candidate \union {NoNext}
           /\ maySwitch' \in BOOLEAN /\ nextRepair' \in BOOLEAN /\ repairing' \in BOOLEAN
           /\ wait' \in [Candidate -> Nat]
<1>1. /\ excluded' = excluded \union out /\ selected' = selected \union out
      /\ retryable' \subseteq (retryable \ out) \union {i}
      /\ nextIndex' \in Candidate \union {NoNext}
      /\ wait' \in [Candidate -> Nat] /\ maySwitch' \in BOOLEAN
      /\ UNCHANGED <<counts, total, nextRepair, repairing>>
  <2>1. RecoveryResult(i, out)
    BY RecoverEffect
  <2>2. QED
    BY <2>1 DEF RecoveryResult
<1>2. QED
  BY <1>1 DEF TypeOK

LEMMA GiveBackKeepsTypes ==
    ASSUME TypeOK, NEW action, GiveBack(action),
           last' \in LastFailure, cool' \in [Key -> Nat]
    PROVE  TypeOK'
<1>1. CASE policy.replayable
  <2>1. recover(cur, action, 0, {})
    BY <1>1 DEF GiveBack
  <2>2. cur \in Candidate
    BY DEF TypeOK
  <2>3. QED
    BY <2>1, <2>2, RecoveryKeepsTypes DEF GiveBack, TypeOK, PC
<1>2. CASE ~policy.replayable
  BY <1>2 DEF GiveBack, schedule, TypeOK, PC
<1>3. QED
  BY <1>1, <1>2

LEMMA FailureKeepsTypes ==
    ASSUME TypeOK,
           \/ ConversionError
           \/ \E action \in FailureAction : NetworkError(action) \/ BufferedError(action)
    PROVE  TypeOK'
<1>1. TargetKey[cur] \in Key
  BY DEF TypeOK, Key
<1>2. LateOverload => cool' \in [Key -> Nat]
  BY <1>1, OverloadWaitType DEF LateOverload, TypeOK, AtLeast
<1>3. cool' = cool => cool' \in [Key -> Nat]
  BY DEF TypeOK
<1>4. CASE ConversionError
  BY <1>2, <1>4, GiveBackKeepsTypes DEF LastFailure, ConversionError
<1>5. ASSUME NEW action \in FailureAction, NetworkError(action) PROVE TypeOK'
  BY <1>3, <1>5, GiveBackKeepsTypes DEF LastFailure, NetworkError
<1>6. ASSUME NEW action \in FailureAction, BufferedError(action) PROVE TypeOK'
  BY <1>2, <1>6, GiveBackKeepsTypes DEF LastFailure, BufferedError
<1>7. QED
  BY <1>4, <1>5, <1>6

LEMMA ExcludedType == ASSUME NEW kind PROVE Excluded(kind) \subseteq Candidate
BY ExecutionAssumption DEF Excluded

LEMMA RefuseKeepsTypes ==
    ASSUME TypeOK, NEW kind \in Refusal, NEW action \in FailureAction, NEW after \in RetryAfter,
           Refuse(kind, action, after)
    PROVE  TypeOK'
<1>1. cur \in Candidate /\ TargetKey[cur] \in Key
  BY DEF TypeOK, Key
<1>2. cool' \in [Key -> Nat]
  BY <1>1, WaitTypes DEF Refuse, TypeOK, AtLeast
<1>3. /\ selected' \subseteq Candidate /\ retryable' \subseteq Candidate
      /\ excluded' \subseteq Candidate
      /\ counts' \in [Candidate -> Nat] /\ total' \in Nat
      /\ nextIndex' \in Candidate \union {NoNext}
      /\ maySwitch' \in BOOLEAN /\ nextRepair' \in BOOLEAN /\ repairing' \in BOOLEAN
      /\ wait' \in [Candidate -> Nat] /\ repaired' \subseteq Key
  <2>1. CASE CanRepair(kind)
    BY <1>1, <2>1 DEF Refuse, repair, TypeOK
  <2>2. CASE ~CanRepair(kind)
    <3>1. PICK act : recover(cur, act, Asked(kind, after), Excluded(kind)) /\ repaired' = repaired
      BY <2>2 DEF Refuse
    <3>2. QED
      BY <1>1, <3>1, RecoveryKeepsTypes, ExcludedType, WaitTypes DEF TypeOK
  <2>3. QED
    BY <2>1, <2>2
<1>4. saved' \in Nat /\ refused' \in BOOLEAN
      /\ last' \in LastFailure /\ pc' \in PC
  BY DEF Refuse, TypeOK, LastFailure, PC
<1>5. QED
  BY <1>1, <1>2, <1>3, <1>4 DEF Refuse, TypeOK

LEMMA NextKeepsTypes == TypeOK /\ [Next]_vars => TypeOK'
<1> SUFFICES ASSUME TypeOK, [Next]_vars PROVE TypeOK'
  OBVIOUS
<1>1. UNCHANGED vars => TypeOK'
  BY DEF vars, schedule, TypeOK
<1>2. CASE Next
  BY <1>1, <1>2, QuietStepKeepsTypes, ClockKeepsTypes, ChooseKeepsTypes, SendKeepsTypes,
     FailureKeepsTypes, RefuseKeepsTypes DEF Next, Step, Environment, Terminated
<1>3. QED
  BY <1>1, <1>2

-----------------------------------------------------------------------------
(* The schedule                                                            *)

LEMMA SameTrail ==
    ASSUME trail' = trail
    PROVE  /\ Sent' = Sent
           /\ \A c : Attempts(c)' = Attempts(c) /\ Unrepaired(c)' = Unrepaired(c)
           /\ \A k : Target(k)' = Target(k)
           /\ \A c : IsLastTarget(c)' = IsLastTarget(c)
BY DEF Sent, Attempts, Unrepaired, Target, IsLastTarget

\* What every step but Choose, Send and a recovery leaves alone
ScheduleKept ==
    UNCHANGED <<policy, selected, retryable, excluded, counts, total, nextIndex, maySwitch,
                nextRepair, repairing, cur, repaired, saved, refused, trail>>

LEMMA KeptScheduleKeepsInv ==
    ASSUME TypeOK, ScheduleInv, Answered, ScheduleKept,
           cancelled => cancelled',
           \/ pc' = pc
           \/ pc = "prepare" /\ pc' = "choose"
           \/ pc = "choose" /\ pc' = "conclude" /\ ~Ready
           \/ pc \in {"called", "writing"} /\ pc' = "conclude" /\ ~policy.replayable
           \/ pc = "called" /\ pc' = "writing"
           \/ pc' = "done"
    PROVE  ScheduleInv'
<1> USE SameTrail DEF ScheduleKept
<1>1. Counted'
  BY DEF ScheduleInv, Counted
<1>2. RepairedOnce'
  BY DEF ScheduleInv, RepairedOnce
<1>3. Scheduled'
  BY DEF ScheduleInv, Scheduled, RepairedOnce
<1>4. StaysWithLast'
  BY DEF ScheduleInv, StaysWithLast
<1>5. OthersFirst'
  BY DEF ScheduleInv, OthersFirst, RepairedOnce
<1>6. NoReturnToLeftTarget'
  BY DEF ScheduleInv, NoReturnToLeftTarget
<1>7. GivesUpOnlyWhenExhausted'
  BY DEF ScheduleInv, GivesUpOnlyWhenExhausted, GaveUp, OthersFirst, Ready, Answered
<1>8. QED
  BY <1>1, <1>2, <1>3, <1>4, <1>5, <1>6, <1>7 DEF ScheduleInv

LEMMA ChooseKeepsSchedule ==
    ASSUME TypeOK, ScheduleInv, Choose
    PROVE  ScheduleInv'
<1> USE SameTrail
<1>1. /\ pc = "choose" /\ pc' = "prepare" /\ nextIndex \in Candidate /\ total < policy.limit
      /\ cur' = nextIndex
      /\ selected' = selected \union {nextIndex} /\ retryable' = retryable \ {nextIndex}
      /\ nextIndex' = FallBack(Candidate \ selected', retryable')
      /\ repairing' = nextRepair /\ nextRepair' = FALSE
      /\ UNCHANGED <<policy, excluded, counts, total, maySwitch, cancelled, repaired, saved,
                     refused, trail>>
  BY DEF Choose, Ready, TypeOK
<1>2. selected' \subseteq Candidate /\ retryable' \subseteq Candidate
  BY <1>1 DEF TypeOK
<1>3. /\ nextIndex' \in selected' => /\ maySwitch /\ selected' = Candidate
                                     /\ policy.strategy # "retry_first" /\ nextIndex' \in retryable'
      /\ nextIndex' = NoNext /\ maySwitch =>
            /\ selected' = Candidate
            /\ policy.strategy # "retry_first" => retryable' = {}
  <2> DEFINE others == Candidate \ selected'
  <2>1. others # {} => Earliest(others) \in others
    BY EarliestIn
  <2>2. retryable' # {} => Earliest(retryable') \in retryable'
    BY <1>2, EarliestIn
  <2>3. NoNext \notin selected'
    BY <1>2, NoNextIsNone
  <2>4. others = {} => selected' = Candidate
    BY <1>2
  <2>5. nextIndex' = FallBack(others, retryable')
    BY <1>1
  <2>6. others \subseteq Candidate /\ (\A c \in others : c \notin selected')
    OBVIOUS
  <2> HIDE DEF others
  <2>7. QED
    BY <1>2, <2>1, <2>2, <2>3, <2>4, <2>5, <2>6, NoNextIsNone DEF FallBack
<1>4. nextIndex \in selected => nextRepair \/ nextIndex \in retryable
  BY <1>1 DEF ScheduleInv, Scheduled
<1>5. nextIndex \notin excluded
  BY <1>1, <1>4 DEF ScheduleInv, Scheduled, RepairedOnce
<1>6. Counted'
  BY <1>1, <1>4, ExecutionAssumption DEF ScheduleInv, Counted
<1>7. RepairedOnce'
  BY <1>1 DEF ScheduleInv, RepairedOnce, Unrepaired
<1>8. Scheduled'
  BY <1>1, <1>3, <1>5 DEF ScheduleInv, Scheduled
<1>9. StaysWithLast'
  <2>1. nextIndex \in Sent => nextIndex \in selected
    BY DEF ScheduleInv, Scheduled
  <2>2. QED
    BY <1>1, <1>3, <2>1 DEF ScheduleInv, StaysWithLast
<1>10. OthersFirst'
  <2>1. nextIndex \in Sent => nextIndex \in selected
    BY DEF ScheduleInv, Scheduled
  <2>2. policy.strategy = "retry_first" => retryable' = {}
    BY <1>1 DEF ScheduleInv, StaysWithLast
  <2>3. QED
    BY <1>1, <1>2, <1>3, <2>1, <2>2 DEF ScheduleInv, OthersFirst
<1>11. NoReturnToLeftTarget'
  BY <1>1 DEF ScheduleInv, NoReturnToLeftTarget
<1>12. GivesUpOnlyWhenExhausted'
  BY <1>1 DEF GivesUpOnlyWhenExhausted, GaveUp
<1>13. QED
  BY <1>6, <1>7, <1>8, <1>9, <1>10, <1>11, <1>12 DEF ScheduleInv

\* What a call adds to the trail
LEMMA SendTrail ==
    ASSUME TypeOK, Send
    PROVE  LET n == Len(trail) + 1
           IN /\ DOMAIN trail = 1 .. Len(trail) /\ DOMAIN trail' = 1 .. n
              /\ Len(trail) \in Nat /\ Len(trail') = n /\ trail' # <<>>
              /\ \A k \in DOMAIN trail : trail'[k] = trail[k]
              /\ trail'[n] = [target |-> cur, repair |-> repairing]
              /\ \A k \in DOMAIN trail : trail'[k].target = Target(k)
              /\ trail'[n].target = cur
<1>1. trail' = Append(trail, [target |-> cur, repair |-> repairing])
  BY DEF Send
<1>2. trail \in Seq(Attempt) /\ [target |-> cur, repair |-> repairing] \in Attempt
  BY DEF TypeOK, Attempt
<1>3. /\ DOMAIN trail = 1 .. Len(trail) /\ DOMAIN trail' = 1 .. Len(trail) + 1
      /\ Len(trail) \in Nat /\ Len(trail') = Len(trail) + 1
      /\ \A k \in DOMAIN trail : trail'[k] = trail[k]
      /\ trail'[Len(trail) + 1] = [target |-> cur, repair |-> repairing]
  BY <1>1, <1>2
<1>4. trail' # <<>>
  BY <1>1, <1>2
<1>5. QED
  BY <1>3, <1>4 DEF Target

\* The new call is an ordinary attempt of its target, or a repair.
LEMMA SendAttempts ==
    ASSUME TypeOK, Send, NEW c \in Candidate
    PROVE  Cardinality(Attempts(c)') = IF c = cur /\ ~repairing THEN Cardinality(Attempts(c)) + 1
                                       ELSE Cardinality(Attempts(c))
<1> DEFINE n == Len(trail) + 1
<1>1. /\ DOMAIN trail = 1 .. Len(trail) /\ DOMAIN trail' = 1 .. n /\ Len(trail) \in Nat
      /\ \A k \in DOMAIN trail : trail'[k] = trail[k] /\ trail'[k].target = Target(k)
      /\ trail'[n].repair = repairing /\ trail'[n].target = cur
  BY SendTrail
<1>2. IsFiniteSet(Attempts(c)) /\ n \notin Attempts(c)
  <2>1. Attempts(c) \in SUBSET (1 .. Len(trail))
    BY <1>1 DEF Attempts
  <2>2. IsFiniteSet(1 .. Len(trail))
    BY <1>1, FS_Interval
  <2>3. QED
    BY <1>1, <2>1, <2>2, FS_Subset
<1>3. CASE c = cur /\ ~repairing
  <2>1. Attempts(c)' = Attempts(c) \union {n}
    BY <1>1, <1>3 DEF Attempts, Target
  <2>2. QED
    BY <1>2, <1>3, <2>1, FS_AddElement
<1>4. CASE ~(c = cur /\ ~repairing)
  <2>1. Attempts(c)' = Attempts(c)
    BY <1>1, <1>4 DEF Attempts, Target
  <2>2. QED
    BY <1>4, <2>1
<1>5. QED
  BY <1>3, <1>4

LEMMA SendKeepsSchedule ==
    ASSUME TypeOK, ScheduleInv, Send
    PROVE  ScheduleInv'
<1> DEFINE n == Len(trail) + 1
<1>1. /\ pc = "prepare" /\ pc' = "called"
      /\ retryable' = OnceStarted(retryable)
      /\ total' = total + 1 /\ saved' = 0 /\ refused' = FALSE
      /\ counts' = IF repairing THEN counts ELSE [counts EXCEPT ![cur] = @ + 1]
      /\ UNCHANGED <<policy, selected, excluded, nextIndex, maySwitch, nextRepair, repairing,
                     cur, cancelled, repaired>>
  BY DEF Send
<1>2. retryable' \subseteq retryable
      /\ (policy.strategy = "failover_only" => retryable' = {})
  BY <1>1 DEF OnceStarted
<1>3. /\ DOMAIN trail = 1 .. Len(trail) /\ DOMAIN trail' = 1 .. n /\ Len(trail) \in Nat
      /\ Len(trail') = n /\ trail' # <<>>
      /\ \A k \in DOMAIN trail : trail'[k] = trail[k] /\ trail'[k].target = Target(k)
      /\ trail'[n].repair = repairing /\ trail'[n].target = cur
  BY SendTrail
<1>4. /\ cur \in selected /\ cur \in Candidate /\ cur \notin excluded /\ cur \notin retryable
      /\ total < policy.limit /\ policy.limit \in Nat /\ total \in Nat
  BY <1>1 DEF ScheduleInv, Scheduled, Counted, TypeOK, Policy
<1>5. Counted'
  <2>1. \A c \in Candidate : counts'[c] = Cardinality(Attempts(c)')
    BY <1>1, SendAttempts DEF ScheduleInv, Counted, TypeOK
  <2>2. \A c \in Candidate : counts'[c] <= MaxRetries[c] + 1
    BY <1>1, ExecutionAssumption DEF ScheduleInv, Counted, TypeOK
  <2>3. \A c \in Candidate \ selected : counts'[c] = 0
    BY <1>1, <1>4 DEF ScheduleInv, Counted, TypeOK
  <2>4. \A c \in retryable' : counts'[c] <= MaxRetries[c]
    BY <1>1, <1>2, <1>4 DEF ScheduleInv, Counted, TypeOK
  <2>5. total' = Len(trail') /\ total' <= policy.limit
    BY <1>1, <1>3, <1>4 DEF ScheduleInv, Counted
  <2>6. QED
    BY <1>1, <2>1, <2>2, <2>3, <2>4, <2>5 DEF Counted
<1>6. RepairedOnce'
  <2>1. /\ \A k \in DOMAIN trail : trail[k].repair => TargetKey[Target(k)] \in repaired
        /\ \A j, k \in DOMAIN trail :
             trail[j].repair /\ trail[k].repair /\ TargetKey[Target(j)] = TargetKey[Target(k)] => j = k
        /\ repairing => TargetKey[cur] \in repaired
        /\ repairing => \A k \in DOMAIN trail : trail[k].repair => TargetKey[Target(k)] # TargetKey[cur]
        /\ ~nextRepair
    BY <1>1 DEF ScheduleInv, RepairedOnce, Unrepaired
  <2>2. \A k \in DOMAIN trail' : k \in DOMAIN trail \/ k = n
    BY <1>3
  <2>3. \A k \in DOMAIN trail' : trail'[k].repair => TargetKey[trail'[k].target] \in repaired
    BY <1>3, <2>1, <2>2
  <2>4. \A j, k \in DOMAIN trail' :
           trail'[j].repair /\ trail'[k].repair /\ TargetKey[trail'[j].target] = TargetKey[trail'[k].target] => j = k
    BY <1>3, <2>1, <2>2
  <2>5. QED
    BY <1>1, <2>1, <2>3, <2>4 DEF RepairedOnce, Target
<1>7. Scheduled'
  <2>1. Sent' \subseteq selected
    BY <1>3, <1>4 DEF ScheduleInv, Scheduled, Sent, Target
  <2>2. QED
    BY <1>1, <1>2, <1>3, <1>4, <2>1 DEF ScheduleInv, Scheduled, Target
<1>8. StaysWithLast'
  <2>1. policy.strategy # "failover_first" => retryable' = {}
    BY <1>1, <1>2, <1>4 DEF ScheduleInv, StaysWithLast, TypeOK, Policy, Strategy
  <2>2. QED
    BY <1>1, <2>1 DEF StaysWithLast
<1>9. OthersFirst'
  BY <1>1 DEF ScheduleInv, OthersFirst
<1>10. NoReturnToLeftTarget'
  <2> SUFFICES ASSUME policy.strategy # "failover_first",
                      NEW i \in DOMAIN trail', NEW k \in DOMAIN trail',
                      i < k, trail'[i].target = trail'[k].target, NEW j \in i .. k
               PROVE  trail'[j].target = trail'[i].target
    BY <1>1 DEF NoReturnToLeftTarget, Target
  <2>1. \A a, b \in DOMAIN trail : a < b /\ Target(a) = Target(b) =>
           \A m \in a .. b : Target(m) = Target(a)
    BY DEF ScheduleInv, NoReturnToLeftTarget
  <2>2. i \in DOMAIN trail /\ j \in 1 .. n
    BY <1>3
  <2>3. CASE k # n
    BY <1>3, <2>1, <2>2, <2>3
  <2>4. CASE k = n
    <3>1. Target(i) = cur
      BY <1>3, <2>2, <2>4
    <3>2. cur \in Sent
      BY <2>2, <3>1 DEF Sent
    <3>3. cur = Target(Len(trail))
      BY <1>1, <1>4, <3>2 DEF ScheduleInv, StaysWithLast, IsLastTarget
    <3>4. i = Len(trail) \/ i < Len(trail)
      BY <1>3, <2>2
    <3>5. \A m \in i .. Len(trail) : Target(m) = cur
      BY <1>3, <2>1, <2>2, <3>1, <3>3, <3>4
    <3>6. j = n \/ (j \in DOMAIN trail /\ j \in i .. Len(trail))
      BY <1>3, <2>2, <2>4
    <3>7. QED
      BY <1>3, <2>2, <3>1, <3>5, <3>6
  <2>5. QED
    BY <2>3, <2>4
<1>11. GivesUpOnlyWhenExhausted'
  BY <1>1 DEF GivesUpOnlyWhenExhausted, GaveUp
<1>12. QED
  BY <1>5, <1>6, <1>7, <1>8, <1>9, <1>10, <1>11 DEF ScheduleInv

LEMMA RecoveryKeepsSchedule ==
    ASSUME TypeOK, ScheduleInv, pc \in {"called", "writing"}, NEW action, NEW asked \in Nat,
           NEW out \in SUBSET Candidate, recover(cur, action, asked, out),
           UNCHANGED <<policy, cur, cancelled, repaired, trail>>,
           saved' \in {0, total},
           IF Recovering THEN pc' = "choose" ELSE pc' \in {"conclude", "writing"}
    PROVE  ScheduleInv'
<1> USE SameTrail
<1>1. cur \in Candidate /\ cur \in selected /\ trail # <<>> /\ cur = Target(Len(trail)) /\ ~nextRepair
  BY DEF TypeOK, ScheduleInv, Scheduled, RepairedOnce
<1>2. RecoveryResult(cur, out)
  BY <1>1, RecoverEffect
<1>3. (total >= policy.limit <=> ~(total < policy.limit)) /\ selected' \union {cur} = selected'
  BY <1>1, <1>2 DEF RecoveryResult, TypeOK, Policy
<1>4. pc' \in {"choose", "conclude", "writing"}
      /\ (pc' = "choose" <=> nextIndex' # NoNext)
  BY DEF Recovering
<1>5. policy.strategy # "failover_first" /\ total < policy.limit => retryable = {}
  BY DEF ScheduleInv, StaysWithLast
<1>6. Counted'
  <2>1. \A c \in retryable' : counts[c] <= MaxRetries[c]
    BY <1>2 DEF RecoveryResult, ScheduleInv, Counted
  <2>2. QED
    BY <1>2, <1>4, <2>1 DEF RecoveryResult, ScheduleInv, Counted
<1>7. RepairedOnce'
  BY <1>1, <1>2, <1>4 DEF RecoveryResult, ScheduleInv, RepairedOnce
<1>8. Scheduled'
  BY <1>1, <1>2, <1>3, <1>4 DEF RecoveryResult, ScheduleInv, Scheduled
<1>9. StaysWithLast'
  BY <1>1, <1>2, <1>3, <1>4, <1>5 DEF RecoveryResult, StaysWithLast, IsLastTarget
<1>10. OthersFirst'
  BY <1>1, <1>2, <1>3, <1>4 DEF RecoveryResult, ScheduleInv, OthersFirst
<1>11. NoReturnToLeftTarget'
  BY DEF ScheduleInv, NoReturnToLeftTarget
<1>12. GivesUpOnlyWhenExhausted'
  <2> SUFFICES ASSUME GaveUp', maySwitch', total < policy.limit
               PROVE  selected' = Candidate /\ retryable' = {}
    BY <1>2 DEF RecoveryResult, GivesUpOnlyWhenExhausted
  <2>1. nextIndex' = NoNext
    BY <1>4 DEF GaveUp
  <2>2. selected' = Candidate /\ cur \notin retryable'
    BY <1>2, <1>3, <2>1 DEF RecoveryResult
  <2>3. policy.strategy = "failover_first" => retryable' = {}
    BY <1>2, <2>1 DEF RecoveryResult
  <2>4. QED
    BY <1>2, <1>5, <2>2, <2>3 DEF RecoveryResult
<1>13. QED
  BY <1>6, <1>7, <1>8, <1>9, <1>10, <1>11, <1>12 DEF ScheduleInv

LEMMA RepairKeepsSchedule ==
    ASSUME TypeOK, ScheduleInv, pc = "called", repair(cur), TargetKey[cur] \notin repaired,
           repaired' = repaired \union {TargetKey[cur]},
           UNCHANGED <<policy, cur, cancelled, trail>>, saved' \in {0, total}, pc' = "choose"
    PROVE  ScheduleInv'
<1> USE SameTrail
<1>1. /\ cur \in Candidate /\ cur \in selected /\ cur \notin excluded
      /\ trail # <<>> /\ cur = Target(Len(trail))
  BY DEF TypeOK, ScheduleInv, Scheduled
<1>2. /\ nextIndex' = cur /\ nextRepair'
      /\ UNCHANGED <<selected, retryable, excluded, counts, total, maySwitch, repairing>>
  BY DEF repair
<1>3. Unrepaired(cur)
  BY DEF ScheduleInv, RepairedOnce, Unrepaired
<1>4. Counted'
  BY <1>2 DEF ScheduleInv, Counted
<1>5. RepairedOnce'
  BY <1>1, <1>2, <1>3 DEF ScheduleInv, RepairedOnce, Unrepaired
<1>6. Scheduled'
  BY <1>2 DEF ScheduleInv, Scheduled
<1>7. StaysWithLast'
  BY <1>1, <1>2 DEF ScheduleInv, StaysWithLast, IsLastTarget
<1>8. OthersFirst'
  BY <1>1, <1>2, NoNextIsNone DEF ScheduleInv, OthersFirst
<1>9. NoReturnToLeftTarget'
  BY <1>2 DEF ScheduleInv, NoReturnToLeftTarget
<1>10. GivesUpOnlyWhenExhausted'
  BY DEF GivesUpOnlyWhenExhausted, GaveUp
<1>11. QED
  BY <1>4, <1>5, <1>6, <1>7, <1>8, <1>9, <1>10 DEF ScheduleInv

LEMMA GiveBackKeepsSchedule ==
    ASSUME TypeOK, ScheduleInv, Answered, pc \in {"called", "writing"}, NEW action, GiveBack(action)
    PROVE  ScheduleInv'
<1>1. saved \in {0, total}
  BY DEF ScheduleInv, Counted
<1>2. CASE policy.replayable
  <2>1. /\ recover(cur, action, 0, {}) /\ {} \in SUBSET Candidate /\ 0 \in Nat
        /\ UNCHANGED <<policy, cur, cancelled, repaired, saved, trail>>
        /\ IF Recovering THEN pc' = "choose" ELSE pc' \in {"conclude", "writing"}
    BY <1>2 DEF GiveBack
  <2>2. saved' \in {0, total}
    BY <1>1, <2>1
  <2>3. QED
    BY <2>1, <2>2, RecoveryKeepsSchedule
<1>3. CASE ~policy.replayable
  <2>1. ScheduleKept /\ cancelled' = cancelled /\ pc' = "conclude"
    BY <1>3 DEF GiveBack, ScheduleKept, schedule
  <2>2. QED
    BY <1>3, <2>1, KeptScheduleKeepsInv
<1>4. QED
  BY <1>2, <1>3

LEMMA RefuseKeepsSchedule ==
    ASSUME TypeOK, ScheduleInv, NEW kind \in Refusal, NEW action, NEW after \in RetryAfter,
           Refuse(kind, action, after)
    PROVE  ScheduleInv'
<1>1. /\ pc = "called" /\ UNCHANGED <<policy, cur, cancelled, trail>>
      /\ IF Recovering THEN pc' = "choose" /\ saved' = total ELSE pc' = "writing" /\ saved' = saved
  BY DEF Refuse
<1>2. saved' \in {0, total}
  BY <1>1 DEF ScheduleInv, Counted
<1>3. CASE CanRepair(kind)
  <2>1. /\ repair(cur) /\ repaired' = repaired \union {TargetKey[cur]}
        /\ TargetKey[cur] \notin repaired
    BY <1>3 DEF Refuse, CanRepair
  <2>2. Recovering
    BY <2>1, NoNextIsNone DEF repair, Recovering, TypeOK
  <2>3. QED
    BY <1>1, <1>2, <2>1, <2>2, RepairKeepsSchedule
<1>4. CASE ~CanRepair(kind)
  <2>1. PICK act : recover(cur, act, Asked(kind, after), Excluded(kind)) /\ repaired' = repaired
    BY <1>4 DEF Refuse
  <2>2. Asked(kind, after) \in Nat /\ Excluded(kind) \in SUBSET Candidate
    BY WaitTypes, ExcludedType
  <2>3. IF Recovering THEN pc' = "choose" ELSE pc' \in {"conclude", "writing"}
    BY <1>1
  <2>4. QED
    BY <1>1, <1>2, <2>1, <2>2, <2>3, RecoveryKeepsSchedule
<1>5. QED
  BY <1>3, <1>4

LEMMA QuietStepKeepsSchedule ==
    ASSUME TypeOK, ScheduleInv, Answered,
           \/ NoneLeft \/ Reject \/ RefuseRequest \/ RejectCooling \/ Respond \/ Commit
           \/ Deliver \/ Interrupted \/ Conclude \/ Cancel \/ Abandon \/ Elapse
           \/ \E k \in Key, after \in RetryAfter : RecordRateLimit(k, after)
           \/ \E c \in Candidate : ReleaseRateLimits(Service[c])
    PROVE  ScheduleInv'
<1>1. ScheduleKept /\ (cancelled => cancelled')
  BY DEF NoneLeft, Reject, RefuseRequest, RejectCooling, Respond, Commit, Deliver, Interrupted,
         Conclude, Cancel, Abandon, Elapse, RecordRateLimit, ReleaseRateLimits, schedule,
         ScheduleKept, TypeOK
<1>2. \/ pc' = pc
      \/ pc = "prepare" /\ pc' = "choose"
      \/ pc = "choose" /\ pc' = "conclude" /\ ~Ready
      \/ pc = "called" /\ pc' = "writing"
      \/ pc' = "done"
  BY DEF NoneLeft, Reject, RefuseRequest, RejectCooling, Respond, Commit, Deliver, Interrupted,
         Conclude, Cancel, Abandon, Elapse, RecordRateLimit, ReleaseRateLimits
<1>3. QED
  BY <1>1, <1>2, KeptScheduleKeepsInv

-----------------------------------------------------------------------------
(* The answer to the client                                                *)

LEMMA ReplyStepKeepsReply ==
    ASSUME TypeOK, ScheduleInv, ReplyInv,
           \/ NoneLeft \/ Reject \/ RefuseRequest \/ RejectCooling \/ Respond \/ Commit
           \/ Deliver \/ Interrupted \/ Conclude \/ Cancel \/ Abandon
    PROVE  ReplyInv'
<1> USE DEF ReplyInv, Answered, ReplyIsAboutLastAttempt
<1>1. CASE NoneLeft \/ Reject \/ RejectCooling
  BY <1>1 DEF NoneLeft, Reject, RejectCooling
<1>2. CASE Respond \/ Commit \/ Cancel \/ Abandon
  BY <1>2 DEF Respond, Commit, Cancel, Abandon
<1>3. CASE RefuseRequest
  BY <1>3 DEF RefuseRequest, NoReply
<1>4. CASE Deliver \/ Interrupted
  BY <1>4 DEF Deliver, Interrupted, NoReply, ScheduleInv, Counted
<1>5. CASE Conclude
  <2>1. saved # 0 => saved = Len(trail)
    BY DEF ScheduleInv, Counted
  <2>2. saved = 0 /\ last = "none" => trail = <<>>
    BY <1>5 DEF Conclude
  <2>3. /\ reply'.kind \in {"response", "replay"} => reply'.of = Len(trail)
        /\ reply'.kind = "cooling" => trail = <<>>
        /\ reply' # NoReply
    BY <1>5, <2>1, <2>2 DEF Conclude, NoReply
  <2>4. QED
    BY <1>5, <2>3 DEF Conclude
<1>6. QED
  BY <1>1, <1>2, <1>3, <1>4, <1>5

LEMMA ClockKeepsReply ==
    ASSUME ReplyInv,
           \/ Elapse
           \/ \E k \in Key, after \in RetryAfter : RecordRateLimit(k, after)
           \/ \E c \in Candidate : ReleaseRateLimits(Service[c])
    PROVE  ReplyInv'
BY DEF ReplyInv, Answered, ReplyIsAboutLastAttempt, Elapse, RecordRateLimit, ReleaseRateLimits

LEMMA CallKeepsReply ==
    ASSUME TypeOK, ReplyInv, NEW kind, NEW action, NEW after,
           \/ Choose \/ Send \/ Refuse(kind, action, after)
    PROVE  ReplyInv'
<1> USE DEF ReplyInv, Answered, ReplyIsAboutLastAttempt
<1>1. CASE Choose
  BY <1>1 DEF Choose
<1>2. CASE Send
  BY <1>2 DEF Send, NoReply
<1>3. CASE Refuse(kind, action, after)
  BY <1>3 DEF Refuse, NoReply
<1>4. QED
  BY <1>1, <1>2, <1>3

LEMMA FailureKeepsReply ==
    ASSUME TypeOK, ReplyInv, NEW action,
           NetworkError(action) \/ BufferedError(action) \/ ConversionError
    PROVE  ReplyInv'
<1>1. /\ pc \in {"called", "writing"} /\ ~committed /\ last' # "none"
      /\ pc' \in {"choose", "conclude"} /\ UNCHANGED <<committed, reply, trail>>
  BY DEF NetworkError, BufferedError, ConversionError, MayTakeBack, GiveBack, ReplyInv, Answered
<1>2. QED
  BY <1>1 DEF ReplyInv, Answered, ReplyIsAboutLastAttempt, NoReply

-----------------------------------------------------------------------------
(* The invariant                                                           *)

LEMMA InitExecutionInv == Init => ExecutionInv
<1> SUFFICES ASSUME Init PROVE ExecutionInv
  OBVIOUS
<1>1. /\ pc = "choose" /\ nextIndex = 1 /\ selected = {} /\ retryable = {} /\ excluded = {}
      /\ total = 0 /\ saved = 0 /\ trail = <<>> /\ ~nextRepair /\ maySwitch = policy.enabled
      /\ ~committed /\ reply = NoReply /\ counts = [c \in Candidate |-> 0]
  BY DEF Init
<1>2. TypeOK
  BY InitTypeOK
<1>3. /\ policy.limit \in Nat /\ (policy.enabled => policy.replayable) /\ NoNext # 1
  BY <1>2 DEF Init, newPolicy, TypeOK, Policy, NoNext
<1>4. /\ DOMAIN trail = {} /\ Len(trail) = 0 /\ Sent = {}
      /\ \A c : Cardinality(Attempts(c)) = 0
  <2>1. DOMAIN trail = {} /\ Len(trail) = 0
    BY <1>1
  <2>2. \A c : Attempts(c) = {}
    BY <2>1 DEF Attempts
  <2>3. QED
    BY <2>1, <2>2, FS_EmptySet DEF Sent
<1>5. Counted
  BY <1>1, <1>3, <1>4, ExecutionAssumption DEF Counted
<1>6. RepairedOnce /\ Scheduled
  BY <1>1, <1>4 DEF RepairedOnce, Scheduled
<1>7. StaysWithLast /\ OthersFirst
  BY <1>1, <1>3 DEF StaysWithLast, OthersFirst
<1>8. NoReturnToLeftTarget /\ GivesUpOnlyWhenExhausted /\ ReplyInv
  BY <1>1, <1>4 DEF NoReturnToLeftTarget, GivesUpOnlyWhenExhausted, GaveUp, ReplyInv, Answered,
                    ReplyIsAboutLastAttempt, NoReply
<1>9. QED
  BY <1>2, <1>5, <1>6, <1>7, <1>8 DEF ExecutionInv, ScheduleInv

LEMMA NextKeepsExecutionInv == ExecutionInv /\ [Next]_vars => ExecutionInv'
<1> SUFFICES ASSUME ExecutionInv, [Next]_vars PROVE ExecutionInv'
  OBVIOUS
<1>1. TypeOK /\ ScheduleInv /\ ReplyInv /\ Answered
  BY DEF ExecutionInv, ReplyInv
<1>2. TypeOK'
  BY <1>1, NextKeepsTypes
<1> SUFFICES ScheduleInv' /\ ReplyInv'
  BY <1>2 DEF ExecutionInv
<1>3. UNCHANGED vars => ScheduleInv' /\ ReplyInv'
  <2> SUFFICES ASSUME UNCHANGED vars PROVE ScheduleInv' /\ ReplyInv'
    OBVIOUS
  <2>1. ScheduleKept /\ cancelled' = cancelled /\ pc' = pc
    BY DEF vars, schedule, ScheduleKept
  <2>2. ScheduleInv'
    BY <1>1, <2>1, KeptScheduleKeepsInv
  <2>3. ReplyInv'
    BY <1>1 DEF vars, schedule, ReplyInv, Answered, ReplyIsAboutLastAttempt
  <2>4. QED
    BY <2>2, <2>3
<1>4. ASSUME Terminated PROVE ScheduleInv' /\ ReplyInv'
  BY <1>3, <1>4 DEF Terminated
<1>5. CASE \/ NoneLeft \/ Reject \/ RefuseRequest \/ RejectCooling \/ Respond \/ Commit
           \/ Deliver \/ Interrupted \/ Conclude \/ Cancel \/ Abandon
  BY <1>1, <1>5, QuietStepKeepsSchedule, ReplyStepKeepsReply
<1>6. CASE \/ Elapse
           \/ \E k \in Key, after \in RetryAfter : RecordRateLimit(k, after)
           \/ \E c \in Candidate : ReleaseRateLimits(Service[c])
  BY <1>1, <1>6, QuietStepKeepsSchedule, ClockKeepsReply
<1>7. CASE Choose \/ Send
  <2>1. ReplyInv'
    BY <1>1, <1>7, CallKeepsReply
  <2>2. QED
    BY <1>1, <1>7, <2>1, ChooseKeepsSchedule, SendKeepsSchedule
<1>8. ASSUME NEW kind \in Refusal, NEW action \in FailureAction, NEW after \in RetryAfter,
             Refuse(kind, action, after)
      PROVE  ScheduleInv' /\ ReplyInv'
  BY <1>1, <1>8, RefuseKeepsSchedule, CallKeepsReply
<1>9. ASSUME NEW action, NetworkError(action) \/ BufferedError(action) \/ ConversionError
      PROVE  ScheduleInv' /\ ReplyInv'
  <2>1. PICK a : pc \in {"called", "writing"} /\ GiveBack(a)
    BY <1>9 DEF NetworkError, BufferedError, ConversionError
  <2>2. QED
    BY <1>1, <1>9, <2>1, GiveBackKeepsSchedule, FailureKeepsReply
<1>10. QED
  BY <1>3, <1>4, <1>5, <1>6, <1>7, <1>8, <1>9 DEF Next, Step, Environment

(* Every reachable state of a request satisfies the invariant: the counters *)
(* of recovery.go agree with the calls made, whoever is next has attempts   *)
(* left, and what may be answered is about the last call.                   *)
THEOREM ExecutionInvariant == Spec => []ExecutionInv
<1>1. Init => ExecutionInv
  BY InitExecutionInv
<1>2. ExecutionInv /\ [Next]_vars => ExecutionInv'
  BY NextKeepsExecutionInv
<1>3. QED
  BY <1>1, <1>2, PTL DEF Spec

\* A request never spends more than its budgets (recovery.go:156-163).
THEOREM BudgetsHold == Spec => []AttemptBudget
<1>1. ExecutionInv => AttemptBudget
  <2> SUFFICES ASSUME ExecutionInv PROVE AttemptBudget
    OBVIOUS
  <2>1. Len(trail) <= policy.limit
        /\ \A c \in Candidate : Cardinality(Attempts(c)) <= MaxRetries[c] + 1
    BY DEF ExecutionInv, ScheduleInv, Counted
  <2>2. ASSUME NEW k \in Key PROVE Cardinality(Repairs(k)) <= 1
    <3>1. \A i, j \in Repairs(k) : i = j
      BY DEF ExecutionInv, ScheduleInv, RepairedOnce, Repairs
    <3>2. CASE Repairs(k) = {}
      BY <3>2, FS_EmptySet
    <3>3. CASE Repairs(k) # {}
      <4>1. PICK i : i \in Repairs(k)
        BY <3>3
      <4>2. Repairs(k) = {i}
        BY <3>1, <4>1
      <4>3. QED
        BY <4>2, FS_Singleton
    <3>4. QED
      BY <3>2, <3>3
  <2>3. QED
    BY <2>1, <2>2 DEF AttemptBudget
<1>2. QED
  BY <1>1, ExecutionInvariant, PTL

\* Except under failover_first, no target is returned to once it has been left.
THEOREM TargetsAreNotReturnedTo == Spec => []NoReturnToLeftTarget
<1>1. ExecutionInv => NoReturnToLeftTarget
  BY DEF ExecutionInv, ScheduleInv
<1>2. QED
  BY <1>1, ExecutionInvariant, PTL

\* A request is given up only when every candidate has had its turn and none
\* may be retried (recover and next, recovery.go).
THEOREM GivenUpWhenExhausted == Spec => []GivesUpOnlyWhenExhausted
<1>1. ExecutionInv => GivesUpOnlyWhenExhausted
  BY DEF ExecutionInv, ScheduleInv
<1>2. QED
  BY <1>1, ExecutionInvariant, PTL

\* The client's answer is about the last call made (execution.go:1118-1141).
THEOREM RepliesAreCurrent == Spec => []ReplyIsAboutLastAttempt
<1>1. ExecutionInv => ReplyIsAboutLastAttempt
  BY DEF ExecutionInv, ReplyInv
<1>2. QED
  BY <1>1, ExecutionInvariant, PTL

-----------------------------------------------------------------------------
LEMMA OnlySendExtendsTrail ==
    ASSUME [Next]_vars, trail' # trail PROVE Send
<1>1. Recovering \/ ~Recovering
  OBVIOUS
<1>2. ~ (\E k \in Refusal, a \in FailureAction, t \in RetryAfter : Refuse(k, a, t))
  BY DEF Refuse
<1>3. ~ (\E a \in FailureAction : NetworkError(a) \/ BufferedError(a)) /\ ~ConversionError
  BY DEF NetworkError, BufferedError, ConversionError, GiveBack
<1>4. ~Choose /\ ~NoneLeft /\ ~Reject /\ ~RefuseRequest /\ ~RejectCooling /\ ~Respond
  BY DEF Choose, NoneLeft, Reject, RefuseRequest, RejectCooling, Respond
<1>5. ~Deliver /\ ~Interrupted /\ ~Conclude /\ ~Abandon /\ ~Commit /\ ~Cancel /\ ~Elapse
  BY DEF Deliver, Interrupted, Conclude, Abandon, Commit, Cancel, Elapse
<1>6. /\ ~ (\E k \in Key, t \in RetryAfter : RecordRateLimit(k, t))
      /\ ~ (\E c \in Candidate : ReleaseRateLimits(Service[c]))
      /\ ~ Terminated /\ ~ (UNCHANGED vars)
  BY DEF RecordRateLimit, ReleaseRateLimits, Terminated, vars
<1>7. QED
  BY <1>2, <1>3, <1>4, <1>5, <1>6 DEF Next, Step, Environment

\* Nothing is sent after the commit point or to an excluded candidate
\* (execution.go:1024-1027, recovery.go:131-141).
THEOREM SendsAreAllowed == Spec => SendsOnlyWhatMayBeSent
<1>1. ExecutionInv /\ [Next]_vars => [trail' # trail => ~committed /\ cur \notin excluded]_vars
  <2> SUFFICES ASSUME ExecutionInv, [Next]_vars, trail' # trail
               PROVE  ~committed /\ cur \notin excluded
    OBVIOUS
  <2>1. pc = "prepare"
    BY OnlySendExtendsTrail DEF Send
  <2>2. QED
    BY <2>1 DEF ExecutionInv, ScheduleInv, ReplyInv, Scheduled, Answered
<1>2. QED
  BY <1>1, ExecutionInvariant, PTL DEF Spec, SendsOnlyWhatMayBeSent

\* Unless the strategy is retry_first, a retry waits until every other
\* candidate has had its turn (recover, recovery.go).
THEOREM BackupsAreTriedFirst == Spec => BackupsComeFirst
<1>1. ExecutionInv /\ [Next]_vars =>
         [trail' # trail /\ ~repairing /\ cur \in Sent
          /\ maySwitch /\ policy.strategy # "retry_first" => selected = Candidate]_vars
  <2> SUFFICES ASSUME ExecutionInv, [Next]_vars, trail' # trail, ~repairing, cur \in Sent,
                      maySwitch, policy.strategy # "retry_first"
               PROVE  selected = Candidate
    OBVIOUS
  <2>1. pc = "prepare"
    BY OnlySendExtendsTrail DEF Send
  <2>2. QED
    BY <2>1 DEF ExecutionInv, ScheduleInv, OthersFirst
<1>2. QED
  BY <1>1, ExecutionInvariant, PTL DEF Spec, BackupsComeFirst
=====
