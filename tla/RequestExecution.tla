-------------------------- MODULE RequestExecution --------------------------
(***************************************************************************)
(* One inference request on its way through the gateway: the candidates    *)
(* the resolver found are prepared, called, retried, repaired and switched *)
(* until one of them has answered or the schedule has nothing left.        *)
(*                                                                         *)
(* The schedule (core/internal/ingress/recovery.go) owns the quotas and    *)
(* the order of the targets; executeCandidatesWithTest (execution.go) is   *)
(* the loop around it, with the point after which a response can no longer *)
(* be taken back.  The cool-downs of endpoint/health.go are shared with    *)
(* the other requests of the gateway, which appear here as an environment. *)
(*                                                                         *)
(* Time is kept in timers that count down: wait[c] is what is left until   *)
(* readyAt[c], cool[k] what is left of the cool-down of the route k.       *)
(***************************************************************************)
EXTENDS Naturals, Sequences, FiniteSets

CONSTANTS
    N,                 \* number of candidates, in the order of preference
    Service,           \* the account each candidate belongs to
    Claude,            \* the candidates that are Claude subscriptions
    TargetKey,         \* service, model, protocol and plan of a candidate
    MaxRetries,        \* ordinary retries the failure policy grants it
    Limits,            \* values the attempt limit may be set to
    InitialDelay,      \* first back-off, in ticks
    MaxDelay,          \* longest back-off
    RetryAfter,        \* waits an upstream may ask for (0: none)
    OverloadCooldown,  \* cool-down of a stream refused for overload
    OtherRequests      \* whether other requests use the same routes

Candidate == 1 .. N
Key == {TargetKey[c] : c \in Candidate}
NoNext == 0            \* nextIndex = -1

ASSUME ExecutionAssumption ==
    /\ N \in Nat \ {0}
    /\ Claude \subseteq Candidate
    /\ \A c \in Claude, d \in Candidate : Service[c] = Service[d] => d \in Claude
    /\ MaxRetries \in [Candidate -> Nat]
    /\ Limits \subseteq Nat \ {0}
    /\ InitialDelay \in Nat /\ MaxDelay \in Nat /\ InitialDelay <= MaxDelay
    /\ RetryAfter \subseteq Nat /\ 0 \in RetryAfter
    /\ OverloadCooldown \in Nat
    /\ OtherRequests \in BOOLEAN

Strategy == {"retry_first", "failover_first", "failover_only"}
FailureAction == {"stop", "retry", "failover", "retry_and_failover"}
AllowsRetry(action) == action \in {"retry", "retry_and_failover"}
AllowsFailover(action) == action \in {"failover", "retry_and_failover"}

(***************************************************************************)
(* What an upstream may answer instead of a response: a status that only   *)
(* the error rules know, a rate limit, a stream refused for overload       *)
(* before its first output, a signal that blocks the account (with a rate  *)
(* limit or another status), a Claude refusal for extra usage, a request   *)
(* that can be repaired.                                                   *)
(***************************************************************************)
Refusal == {"status", "limit", "overload", "account", "account_limit",
            "extra_usage", "repairable"}
BlocksAccount(kind) == kind \in {"account", "account_limit"}

VARIABLES
    policy,      \* strategy, switching, attempt limit; is the body replayable
    selected, retryable, excluded, counts, total,     \* recoverySchedule
    nextIndex, maySwitch, nextRepair, repairing, wait,
    pc, cur,     \* where the loop is, and with which candidate
    committed,   \* downstream.Committed()
    cancelled,   \* the client has gone
    repaired,    \* keys of repairedTargets
    saved,       \* the attempt whose error replayLastHTTP would write (0: none)
    last,        \* kind of the last failure
    refused,     \* the response being written is an error
    reply,       \* what the client was given, and by which attempt
    cool,        \* the cool-downs of the routes
    trail        \* history: the attempts made

schedule == <<selected, retryable, excluded, counts, total, nextIndex,
              maySwitch, nextRepair, repairing, wait>>
vars == <<policy, schedule, pc, cur, committed, cancelled, repaired, saved,
          last, refused, reply, cool, trail>>

NoReply == [kind |-> "none", of |-> 0]
Earliest(S) == CHOOSE c \in S : \A d \in S : c <= d
AtMost(a, b) == IF a <= b THEN a ELSE b
AtLeast(a, b) == IF a >= b THEN a ELSE b

-----------------------------------------------------------------------------
\* Mutant of newPolicy: an opaque body is left without any attempt.
newPolicyNoAttempt(strategy, enabled, limit, replayable) ==
    [strategy |-> strategy, enabled |-> enabled /\ replayable,
     limit |-> IF replayable THEN limit ELSE 0, replayable |-> replayable]

(* newRecoverySchedule: an opaque body allows one attempt at one target.   *)
newPolicy(strategy, enabled, limit, replayable) ==
    [strategy   |-> strategy,
     enabled    |-> enabled /\ replayable,
     limit      |-> IF replayable THEN limit ELSE 1,
     replayable |-> replayable]

Init ==
    /\ \E s \in Strategy, e, r \in BOOLEAN, m \in Limits :
          policy = newPolicy(s, e, m, r)
    /\ selected = {} /\ retryable = {} /\ excluded = {}
    /\ counts = [c \in Candidate |-> 0]
    /\ total = 0
    /\ nextIndex = 1
    /\ maySwitch = policy.enabled
    /\ nextRepair = FALSE /\ repairing = FALSE
    /\ wait = [c \in Candidate |-> 0]
    /\ pc = "choose" /\ cur = 1
    /\ committed = FALSE /\ cancelled = FALSE
    /\ repaired = {} /\ saved = 0
    /\ last = "none" /\ refused = FALSE
    /\ reply = NoReply
    /\ cool = [k \in Key |-> 0]
    /\ trail = <<>>

-----------------------------------------------------------------------------
\* Mutant of FallBack: a granted retry is forgotten.
FallBackOnlyNew(others, again) ==
    IF maySwitch /\ others # {} THEN Earliest(others) ELSE NoNext
\* Mutant of FallBack: the rejected candidate itself is considered.
FallBackToCurrent(others, again) ==
    IF maySwitch THEN Earliest(others \union again \union {nextIndex}) ELSE NoNext

(* The end of next: where the loop goes should this candidate be rejected  *)
(* before it is called.                                                    *)
FallBack(others, again) ==
    IF ~maySwitch THEN NoNext
    ELSE IF others # {} THEN Earliest(others)
    ELSE IF policy.strategy # "retry_first" /\ again # {} THEN Earliest(again)
    ELSE NoNext

Ready == nextIndex # NoNext /\ total < policy.limit /\ ~cancelled

(* next, once the back-off of the target has passed *)
Choose ==
    /\ pc = "choose" /\ Ready /\ wait[nextIndex] = 0
    /\ cur' = nextIndex
    /\ selected' = selected \union {nextIndex}
    /\ retryable' = retryable \ {nextIndex}
    /\ nextIndex' = FallBack(Candidate \ selected', retryable')
    /\ repairing' = nextRepair
    /\ nextRepair' = FALSE
    /\ pc' = "prepare"
    /\ UNCHANGED <<policy, excluded, counts, total, maySwitch, wait, committed,
                   cancelled, repaired, saved, last, refused, reply, cool, trail>>

(* next has no target, no budget or no client left *)
NoneLeft ==
    /\ pc = "choose" /\ ~Ready
    /\ pc' = "conclude"
    /\ UNCHANGED <<policy, schedule, cur, committed, cancelled, repaired, saved,
                   last, refused, reply, cool, trail>>

(***************************************************************************)
(* Preparation: the plan, the copy of the body, the model redirect, the    *)
(* conversion, the rewrites, the client identity, the credential, the base *)
(* URL and the outbound request of the transport.  Each may turn the       *)
(* candidate down; none of them spends an attempt.                         *)
(***************************************************************************)
Reject ==
    /\ pc = "prepare"
    /\ last' = "local"
    /\ pc' = "choose"
    /\ UNCHANGED <<policy, schedule, cur, committed, cancelled, repaired, saved,
                   refused, reply, cool, trail>>

(* The body cannot be copied, or the privacy filter refuses the request:   *)
(* the client is told, nothing is sent.                                    *)
RefuseRequest ==
    /\ pc = "prepare"
    /\ reply' = [kind |-> "invalid", of |-> 0]
    /\ committed' = TRUE
    /\ pc' = "done"
    /\ UNCHANGED <<policy, schedule, cur, cancelled, repaired, saved, last,
                   refused, cool, trail>>

(* The route is cooling down; the candidate sits out. *)
RejectCooling ==
    /\ pc = "prepare" /\ cool[TargetKey[cur]] > 0
    /\ pc' = "choose"
    /\ UNCHANGED <<policy, schedule, cur, committed, cancelled, repaired, saved,
                   last, refused, reply, cool, trail>>

\* Mutant of OnceStarted: the fallback outlives the call.
OnceStartedKept(retry) == retry

(* Under failover_only a call replaces the fallback to an earlier target. *)
OnceStarted(retry) == IF policy.strategy = "failover_only" THEN {} ELSE retry

(* ObserveOutbound, right before the request goes out; schedule.started *)
Send ==
    /\ pc = "prepare" /\ cool[TargetKey[cur]] = 0
    /\ retryable' = OnceStarted(retryable)
    /\ total' = total + 1
    /\ counts' = IF repairing THEN counts ELSE [counts EXCEPT ![cur] = @ + 1]
    /\ saved' = 0
    /\ refused' = FALSE
    /\ trail' = Append(trail, [target |-> cur, repair |-> repairing])
    /\ pc' = "called"
    /\ UNCHANGED <<policy, selected, excluded, nextIndex, maySwitch, nextRepair,
                   repairing, wait, cur, committed, cancelled, repaired, last,
                   reply, cool>>

-----------------------------------------------------------------------------
(* The back-off doubles with every ordinary attempt, is spread by a fifth  *)
(* in both directions and then capped.                                     *)
Backoff(n) ==
    LET base == InitialDelay * 2^(IF n > 1 THEN n - 1 ELSE 0)
    IN {b \in 0 .. MaxDelay :
           \E d \in {(4 * base) \div 5, base, (6 * base) \div 5} : b = AtMost(d, MaxDelay)}

\* Mutant of NextTarget: every strategy retries first.
NextTargetRetriesFirst(i, again, canSwitch, others, retry) ==
    IF again THEN i
    ELSE IF canSwitch /\ others # {} THEN Earliest(others)
    ELSE NoNext

(* The order in which recover looks for the next target. *)
NextTarget(i, again, canSwitch, others, retry) ==
    IF again /\ (~canSwitch \/ policy.strategy = "retry_first") THEN i
    ELSE IF canSwitch /\ others # {} THEN Earliest(others)
    ELSE IF canSwitch /\ policy.strategy = "failover_first" /\ retry # {}
         THEN Earliest(retry)
    ELSE IF again THEN i
    ELSE NoNext

\* Mutant of WithinQuota: one retry too many.
WithinQuotaByOne(i) == counts[i] <= MaxRetries[i] + 1
WithinQuota(i) == counts[i] <= MaxRetries[i]

(***************************************************************************)
(* recover, after exclude has taken the candidates in out off the          *)
(* schedule.  It returns true when it has chosen a next target.            *)
(***************************************************************************)
recover(i, action, asked, out) ==
    \E backoff \in Backoff(counts[i]) :
       LET delay     == AtLeast(backoff, asked)
           spent     == total >= policy.limit
           granted   == i \notin excluded' /\ AllowsRetry(action) /\ WithinQuota(i)
           again     == granted /\ (spent \/ delay <= MaxDelay)
           canSwitch == AllowsFailover(action) /\ policy.enabled
       IN /\ excluded' = excluded \union out
          /\ selected' = selected \union out
          /\ retryable' = ((retryable \ out) \ {i}) \union (IF again THEN {i} ELSE {})
          /\ nextIndex' = IF spent THEN NoNext
                          ELSE NextTarget(i, again, canSwitch,
                                          Candidate \ (selected' \union {i}), retryable')
          /\ wait' = IF spent THEN wait ELSE [wait EXCEPT ![i] = delay]
          /\ maySwitch' = IF spent THEN maySwitch ELSE canSwitch
          /\ UNCHANGED <<counts, total, nextRepair, repairing>>

Recovering == nextIndex' # NoNext

(* repair, an immediate second attempt at the same target *)
repair(i) ==
    /\ total < policy.limit
    /\ nextIndex' = i
    /\ nextRepair' = TRUE
    /\ wait' = [wait EXCEPT ![i] = 0]
    /\ UNCHANGED <<selected, retryable, excluded, counts, total, maySwitch, repairing>>

-----------------------------------------------------------------------------
(* A response that is no error: it is passed on. *)
Respond ==
    /\ pc = "called"
    /\ pc' = "writing"
    /\ UNCHANGED <<policy, schedule, cur, committed, cancelled, repaired, saved,
                   last, refused, reply, cool, trail>>

CanRepair(kind) ==
    /\ kind = "repairable" /\ policy.replayable /\ ~committed
    /\ TargetKey[cur] \notin repaired
    /\ total < policy.limit

(* The candidates an answer takes off the schedule. *)
Excluded(kind) ==
    IF BlocksAccount(kind) THEN {c \in Candidate : Service[c] = Service[cur]}
    ELSE IF kind = "extra_usage" THEN Claude
    ELSE {}

(* The wait that recover is told, and the cool-down that is recorded. *)
Asked(kind, after) ==
    IF kind = "overload"
    THEN AtLeast(OverloadCooldown, AtLeast(after, InitialDelay))
    ELSE after
Cooldown(kind, after) ==
    IF kind \in {"limit", "account_limit"} THEN AtLeast(after, InitialDelay)
    ELSE IF kind = "overload" THEN Asked(kind, after)
    ELSE 0

(***************************************************************************)
(* HandleResponse for an error status, or for a stream that was held and   *)
(* refused before its first output.  If there is a next target, the error  *)
(* is kept for the case that no further attempt is made; otherwise it is   *)
(* the client's.                                                           *)
(***************************************************************************)
Refuse(kind, action, after) ==
    /\ pc = "called"
    /\ kind = "overload" => policy.replayable
    /\ kind = "extra_usage" => cur \in Claude
    /\ cool' = [cool EXCEPT ![TargetKey[cur]] = AtLeast(@, Cooldown(kind, after))]
    /\ \/ /\ CanRepair(kind)
          /\ repair(cur)
          /\ repaired' = repaired \union {TargetKey[cur]}
       \/ /\ ~CanRepair(kind)
          /\ recover(cur, IF BlocksAccount(kind) THEN "failover" ELSE action,
                     Asked(kind, after), Excluded(kind))
          /\ UNCHANGED repaired
    /\ IF Recovering
       THEN saved' = total /\ last' = "upstream" /\ pc' = "choose" /\ UNCHANGED refused
       ELSE refused' = TRUE /\ pc' = "writing" /\ UNCHANGED <<saved, last>>
    /\ UNCHANGED <<policy, cur, committed, cancelled, reply, trail>>

(* The call failed and nothing has reached the client. *)
GiveBack(action) ==
    /\ IF policy.replayable
       THEN /\ recover(cur, action, 0, {})
            /\ pc' = IF Recovering THEN "choose" ELSE "conclude"
       ELSE pc' = "conclude" /\ UNCHANGED schedule
    /\ UNCHANGED <<policy, cur, committed, cancelled, repaired, saved, refused,
                   reply, trail>>

\* Mutant of NetworkError: the failure is not noted.
NetworkErrorUnnoted(action) ==
    pc = "called" /\ ~cancelled /\ GiveBack(action) /\ UNCHANGED <<last, cool>>

(* No response, no response in time, or a held stream that broke off *)
NetworkError(action) ==
    /\ pc = "called" /\ ~cancelled
    /\ last' = "upstream"
    /\ GiveBack(action)
    /\ UNCHANGED cool

(* The first header, byte or flush reaches the client. *)
Commit ==
    /\ pc = "writing" /\ ~committed
    /\ committed' = TRUE
    /\ UNCHANGED <<policy, schedule, pc, cur, cancelled, repaired, saved, last,
                   refused, reply, cool, trail>>

(* A response may end in an overload event: the route then cools down,     *)
(* whatever becomes of the response.                                       *)
LateOverload ==
    \/ UNCHANGED cool
    \/ cool' = [cool EXCEPT ![TargetKey[cur]] = AtLeast(@, Asked("overload", 0))]

(* The response is written to its end. *)
Deliver ==
    /\ pc = "writing"
    /\ LateOverload
    /\ committed' = TRUE
    /\ reply' = [kind |-> "response", of |-> total]
    /\ pc' = "done"
    /\ UNCHANGED <<policy, schedule, cur, cancelled, repaired, saved, last, refused,
                   trail>>

(* Once anything has been written, a broken response stays broken. *)
Interrupted ==
    /\ pc = "writing" /\ committed /\ ~cancelled
    /\ LateOverload
    /\ reply' = [kind |-> "response", of |-> total]
    /\ pc' = "done"
    /\ UNCHANGED <<policy, schedule, cur, committed, cancelled, repaired, saved,
                   last, refused, trail>>

\* Mutant of MayTakeBack: the commit point is not looked at.
MayTakeBackAlways == TRUE
MayTakeBack == ~committed

(* A buffered response breaks off, or cannot be converted, unseen. *)
BufferedError(action) ==
    /\ pc = "writing" /\ MayTakeBack /\ ~cancelled
    /\ LateOverload
    /\ last' = "upstream"
    /\ GiveBack(action)

ConversionError ==
    /\ pc = "writing" /\ MayTakeBack /\ ~cancelled
    /\ LateOverload
    /\ last' = "conversion"
    /\ GiveBack("failover")

-----------------------------------------------------------------------------
(* After the loop: the kept error, the cool-downs or the last failure *)
Conclude ==
    /\ pc = "conclude" /\ ~cancelled
    /\ reply' = CASE saved # 0 -> [kind |-> "replay", of |-> saved]
                  [] saved = 0 /\ last = "none" -> [kind |-> "cooling", of |-> 0]
                  [] OTHER -> [kind |-> "failure", of |-> 0]
    /\ committed' = TRUE
    /\ pc' = "done"
    /\ UNCHANGED <<policy, schedule, cur, cancelled, repaired, saved, last, refused,
                   cool, trail>>

(* The client goes away; whatever is under way is given up at the next     *)
(* look at the request's context.                                          *)
Cancel ==
    /\ pc # "done" /\ ~cancelled
    /\ cancelled' = TRUE
    /\ UNCHANGED <<policy, schedule, pc, cur, committed, repaired, saved, last,
                   refused, reply, cool, trail>>

Abandon ==
    /\ pc \in {"prepare", "called", "writing", "conclude"} /\ cancelled
    /\ pc' = "done"
    /\ UNCHANGED <<policy, schedule, cur, committed, cancelled, repaired, saved,
                   last, refused, reply, cool, trail>>

(* Time passes. *)
Elapse ==
    /\ pc # "done"
    /\ (\E c \in Candidate : wait[c] > 0) \/ (\E k \in Key : cool[k] > 0)
    /\ wait' = [c \in Candidate |-> IF wait[c] > 0 THEN wait[c] - 1 ELSE 0]
    /\ cool' = [k \in Key |-> IF cool[k] > 0 THEN cool[k] - 1 ELSE 0]
    /\ UNCHANGED <<policy, selected, retryable, excluded, counts, total, nextIndex,
                   maySwitch, nextRepair, repairing, pc, cur, committed, cancelled,
                   repaired, saved, last, refused, reply, trail>>

(* Another request meets a rate limit on a route. *)
RecordRateLimit(k, after) ==
    /\ OtherRequests /\ pc # "done"
    /\ cool[k] < AtLeast(after, InitialDelay)
    /\ cool' = [cool EXCEPT ![k] = AtLeast(after, InitialDelay)]
    /\ UNCHANGED <<policy, schedule, pc, cur, committed, cancelled, repaired, saved,
                   last, refused, reply, trail>>

(* The operator restores the scheduling of a service. *)
ReleaseRateLimits(s) ==
    LET freed == {TargetKey[c] : c \in {d \in Candidate : Service[d] = s}}
    IN /\ OtherRequests /\ pc # "done"
       /\ \E k \in freed : cool[k] > 0
       /\ cool' = [k \in Key |-> IF k \in freed THEN 0 ELSE cool[k]]
       /\ UNCHANGED <<policy, schedule, pc, cur, committed, cancelled, repaired,
                      saved, last, refused, reply, trail>>

-----------------------------------------------------------------------------
Terminated == pc = "done" /\ UNCHANGED vars

(* The steps the gateway takes by itself, or that end an upstream call *)
Step ==
    \/ Choose \/ NoneLeft \/ Reject \/ RefuseRequest \/ RejectCooling \/ Send
    \/ Respond \/ Deliver \/ Interrupted \/ ConversionError \/ Conclude \/ Abandon
    \/ \E action \in FailureAction :
          \/ NetworkError(action)
          \/ BufferedError(action)
          \/ \E kind \in Refusal, after \in RetryAfter : Refuse(kind, action, after)

Environment ==
    \/ Commit \/ Cancel
    \/ \E k \in Key, after \in RetryAfter : RecordRateLimit(k, after)
    \/ \E c \in Candidate : ReleaseRateLimits(Service[c])

Next == Step \/ Elapse \/ Environment \/ Terminated

Spec == Init /\ [][Next]_vars

Fairness == WF_vars(Step) /\ WF_vars(Elapse)

FairSpec == Spec /\ Fairness

-----------------------------------------------------------------------------
Target(k) == trail[k].target
Sent == {Target(k) : k \in DOMAIN trail}
Attempts(c) == {k \in DOMAIN trail : Target(k) = c /\ ~trail[k].repair}
Repairs(key) == {k \in DOMAIN trail : TargetKey[Target(k)] = key /\ trail[k].repair}

Policy == [strategy : Strategy, enabled : BOOLEAN, limit : Nat \ {0}, replayable : BOOLEAN]
Reply == [kind : {"none", "invalid", "response", "replay", "cooling", "failure"}, of : Nat]
Attempt == [target : Candidate, repair : BOOLEAN]
PC == {"choose", "prepare", "called", "writing", "conclude", "done"}
LastFailure == {"none", "local", "upstream", "conversion"}

TypeOK ==
    /\ policy \in Policy
    /\ selected \subseteq Candidate /\ retryable \subseteq Candidate
    /\ excluded \subseteq Candidate
    /\ counts \in [Candidate -> Nat] /\ total \in Nat
    /\ nextIndex \in Candidate \union {NoNext}
    /\ maySwitch \in BOOLEAN /\ nextRepair \in BOOLEAN /\ repairing \in BOOLEAN
    /\ wait \in [Candidate -> Nat]
    /\ pc \in PC /\ cur \in Candidate
    /\ committed \in BOOLEAN /\ cancelled \in BOOLEAN /\ refused \in BOOLEAN
    /\ repaired \subseteq Key
    /\ saved \in Nat /\ last \in LastFailure /\ reply \in Reply
    /\ cool \in [Key -> Nat]
    /\ trail \in Seq(Attempt)

(***************************************************************************)
(* The budgets hold however attempts, repairs, local rejections, switches  *)
(* and exclusions follow each other: no more calls than the attempt limit  *)
(* (one for a body that cannot be replayed), no more ordinary calls of a   *)
(* target than its retries and the first, one repair per target.           *)
(***************************************************************************)
AttemptBudget ==
    /\ Len(trail) <= policy.limit
    /\ \A c \in Candidate : Cardinality(Attempts(c)) <= MaxRetries[c] + 1
    /\ \A k \in Key : Cardinality(Repairs(k)) <= 1

(***************************************************************************)
(* Except under failover_first, a target that has been left is never       *)
(* called again: the calls of a target follow each other, also when        *)
(* candidates between them are rejected locally (recovery.go:107-109).     *)
(***************************************************************************)
NoReturnToLeftTarget ==
    policy.strategy # "failover_first" =>
       \A i, k \in DOMAIN trail :
          i < k /\ Target(i) = Target(k) =>
             \A j \in i .. k : Target(j) = Target(i)

(***************************************************************************)
(* A request is given up only when nothing is left: while attempts remain  *)
(* and switching is allowed, an error goes to the client only after every  *)
(* candidate has had its turn or was excluded, and none may be retried.    *)
(***************************************************************************)
GaveUp == pc = "conclude" \/ (pc = "writing" /\ refused)

GivesUpOnlyWhenExhausted ==
    GaveUp /\ ~cancelled /\ maySwitch /\ total < policy.limit =>
       selected = Candidate /\ retryable = {}

(***************************************************************************)
(* What the client is told is about the last call made: the kept error of  *)
(* an earlier attempt is never replayed over a later one, and "cooling     *)
(* down" is never the answer to a request that reached an upstream         *)
(* (execution.go:1124).  A request that is over has been answered, unless  *)
(* its client left.                                                        *)
(***************************************************************************)
ReplyIsAboutLastAttempt ==
    /\ reply.kind \in {"response", "replay"} => reply.of = Len(trail)
    /\ reply.kind = "cooling" => trail = <<>>
    /\ pc = "done" /\ reply = NoReply => cancelled

(***************************************************************************)
(* Nothing is sent once a byte of an answer has reached the client         *)
(* (execution.go:1024-1027), and never to a candidate that an earlier      *)
(* answer has taken off the request (recovery.go:131-141).                 *)
(***************************************************************************)
SendsOnlyWhatMayBeSent ==
    [][trail' # trail => ~committed /\ cur \notin excluded]_vars

(***************************************************************************)
(* Before a target is tried again with switching allowed, every other      *)
(* candidate has had its turn, unless the strategy is retry_first.  A      *)
(* repair is not a retry.                                                  *)
(***************************************************************************)
BackupsComeFirst ==
    [][trail' # trail /\ ~repairing /\ cur \in Sent
       /\ maySwitch /\ policy.strategy # "retry_first"
          => selected = Candidate]_vars

(* Every request is over at last: rejections, retries, repairs and         *)
(* switches cannot follow each other for ever.                             *)
Termination == <>(pc = "done")

-----------------------------------------------------------------------------
(* The inductive invariant behind the safety properties, one part per idea.*)

\* The counters count the trail, and whoever is next has attempts left.
Counted ==
    /\ total = Len(trail) /\ total <= policy.limit /\ saved \in {0, total}
    /\ \A c \in Candidate : counts[c] = Cardinality(Attempts(c)) /\ counts[c] <= MaxRetries[c] + 1
    /\ \A c \in Candidate \ selected : counts[c] = 0
    /\ \A c \in retryable : counts[c] <= MaxRetries[c]
    /\ pc = "prepare" => total < policy.limit /\ (repairing \/ counts[cur] <= MaxRetries[cur])

\* A repair under way is the first of its target.
Unrepaired(c) == \A k \in DOMAIN trail : trail[k].repair => TargetKey[Target(k)] # TargetKey[c]

RepairedOnce ==
    /\ \A k \in DOMAIN trail : trail[k].repair => TargetKey[Target(k)] \in repaired
    /\ \A j, k \in DOMAIN trail :
          trail[j].repair /\ trail[k].repair /\ TargetKey[Target(j)] = TargetKey[Target(k)] => j = k
    /\ nextRepair => pc \notin {"prepare", "called", "writing"}
    /\ pc = "choose" /\ nextRepair => /\ nextIndex \in selected \ excluded
                                      /\ TargetKey[nextIndex] \in repaired
                                      /\ Unrepaired(nextIndex)
    /\ pc = "prepare" /\ repairing => TargetKey[cur] \in repaired /\ Unrepaired(cur)

\* The next target is a new one or may be retried, and is never excluded.
Scheduled ==
    /\ excluded \subseteq selected /\ retryable \subseteq selected \ excluded
    /\ Sent \subseteq selected
    /\ pc \in {"prepare", "called", "writing"} => cur \in selected
    /\ pc \in {"prepare", "called"} => cur \notin excluded
    /\ pc = "prepare" => cur \notin retryable
    /\ pc \in {"called", "writing"} => trail # <<>> /\ cur = Target(Len(trail))
    /\ pc \in {"choose", "prepare"} /\ nextIndex \in selected /\ ~nextRepair
          => nextIndex \in retryable

\* Unless the strategy is failover_first, only the target called last may be
\* retried: retry_first holds it as the next one, failover_only as a fallback.
IsLastTarget(c) == trail # <<>> /\ c = Target(Len(trail))

StaysWithLast ==
    policy.strategy # "failover_first" /\ total < policy.limit =>
       /\ pc \in {"choose", "prepare"} /\ nextIndex \in selected => IsLastTarget(nextIndex)
       /\ pc = "prepare" /\ cur \in Sent => IsLastTarget(cur)
       /\ \A c \in retryable : IsLastTarget(c)
       /\ pc \in {"called", "writing"} => retryable = {}
       /\ policy.strategy = "retry_first" /\ pc = "choose" => retryable \subseteq {nextIndex}
       /\ policy.strategy = "retry_first" /\ pc = "prepare" => retryable = {}

\* While switching is allowed a retry waits for every candidate's turn, and
\* the schedule ends only when nothing is left.
OthersFirst ==
    /\ maySwitch => policy.enabled
    /\ policy.enabled => policy.replayable
    /\ pc \in {"choose", "prepare"} /\ maySwitch =>
          /\ nextIndex \in selected /\ ~nextRepair /\ policy.strategy # "retry_first"
                => selected = Candidate
          /\ nextIndex = NoNext /\ total < policy.limit => selected = Candidate /\ retryable = {}
    /\ pc = "prepare" /\ maySwitch /\ ~repairing /\ cur \in Sent /\ policy.strategy # "retry_first"
          => selected = Candidate

\* What has been written, and what would be.
Answered ==
    /\ pc \in {"choose", "prepare", "called", "conclude"} => ~committed
    /\ pc = "called" => ~refused
    /\ pc # "done" => reply = NoReply
    /\ pc \in {"choose", "prepare", "conclude"} /\ trail # <<>> => last # "none"

ScheduleInv ==
    /\ Counted /\ RepairedOnce /\ Scheduled /\ StaysWithLast /\ OthersFirst
    /\ NoReturnToLeftTarget /\ GivesUpOnlyWhenExhausted

ReplyInv == Answered /\ ReplyIsAboutLastAttempt

ExecutionInv == TypeOK /\ ScheduleInv /\ ReplyInv
=============================================================================
