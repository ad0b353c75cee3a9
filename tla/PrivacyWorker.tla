--------------------------- MODULE PrivacyWorker ---------------------------
(***************************************************************************)
(* The local privacy model at work: the clients, each with one worker      *)
(* process that inspects one frame at a time, and the hand-over from the   *)
(* detector of one policy to that of the next                              *)
(* (core/internal/privacyworker, client.go and handover.go), with the      *)
(* policy in the store and the installations it depends on                 *)
(* (core/internal/controlapi, policies.go and privacy_models.go).          *)
(*                                                                         *)
(* A client serves one model from its creation by the hand-over to its     *)
(* Close: its generation changes only there, so the checks of a generation *)
(* are checks of open.  What a worker finds in a text is left out.         *)
(***************************************************************************)
EXTENDS Naturals, FiniteSets

CONSTANTS
    Model, Accelerated, \* the installed models; those that are prepared ahead
    Request, Text,      \* what is inspected: the pieces of a request, numbered
    Nobody, Regex, Off, \* no actor; the policies that use no local model
    MaxPolicies,        \* bound of the model on changes of the policy
    MaxTroubles         \* bound of the model on failures of workers, deletions of
                        \* installations and policies from another device

Policy == Model \cup {Regex, Off}
\* A new client comes from a change of the policy.
Client == 1 .. MaxPolicies
Actor == Request \cup Client

\* What the instances assume of the constants.
WorkerAssumption ==
    /\ IsFiniteSet(Model) /\ Accelerated \subseteq Model
    /\ Regex \notin Model /\ Off \notin Model /\ Regex # Off
    /\ Text \subseteq Nat \ {0} /\ IsFiniteSet(Text) /\ Text # {}
    /\ Request \cap Client = {} /\ Nobody \notin Actor /\ Regex \notin {0} \cup Client
    /\ MaxPolicies \in Nat /\ MaxTroubles \in Nat

VARIABLES
    stored,     \* the policy in the store, which every request reads
    changing,   \* a change of the policy that is stored and not yet applied
    installed,  \* the models whose installation is ready
    policy,     \* Handover.policy
    target,     \* Handover.target, 0 for none
    prep,       \* Handover.prep: the client prepared ahead and how that stands
    fallback,   \* Handover.fallback: a client, Regex or 0
    released,   \* the clients ApplyPolicy is about to close
    client,     \* client[c]: the state of a Client
    alive,      \* the worker processes that run, each a client and its number
    at,         \* at[x]: where a request's or a preparation's goroutine is
    upset,      \* history: the requests that saw something change or fail
    broken,     \* history: the clients whose worker or installation failed
    policies, troubles

handover == <<policy, target, prep, fallback, released>>
vars == <<stored, changing, installed, handover, client, alive, at, upset, broken,
          policies, troubles>>

NoPrep == [of |-> 0, state |-> "none"]
Unused == [open |-> FALSE, model |-> Off, failed |-> FALSE, verified |-> FALSE,
           slot |-> Nobody, process |-> 0, starting |-> 0, started |-> 0, cache |-> {}]
Rest == [pc |-> "idle", on |-> 0, target |-> 0, counted |-> FALSE, want |-> Off,
         worker |-> 0, attempt |-> 0, left |-> {}]

Ended == {"idle", "done", "refused"}
Running == {r \in Request : at[r].pc \notin Ended}

\* Core that starts with a local model is as one that gets its first policy now:
\* requests are served after ApplyPolicy.
Init ==
    /\ stored \in {Regex, Off} /\ changing = <<>> /\ installed = Model
    /\ policy = stored /\ target = 0 /\ prep = NoPrep /\ fallback = 0 /\ released = {}
    /\ client = [c \in Client |-> Unused] /\ alive = {}
    /\ at = [x \in Actor |-> Rest]
    /\ upset = {} /\ broken = {}
    /\ policies = 0 /\ troubles = 0

-----------------------------------------------------------------------------
\* What becomes of a client c and its worker w.  Stopping waits for the process.
Workers(c) == {<<c, client[c].process>>, <<c, client[c].starting>>}
Tracked(c, w) == w \in {client[c].process, client[c].starting}

Stopped(c) == [client EXCEPT ![c].process = 0, ![c].starting = 0]
Untracked(c, w) ==
    [client EXCEPT ![c].process = IF @ = w THEN 0 ELSE @,
                   ![c].starting = IF @ = w THEN 0 ELSE @]
\* Mutant of FailedClient: a worker that was stopped on purpose counts as failed.
FailedClientAny(c, w) == [Stopped(c) EXCEPT ![c].failed = TRUE]
\* failProcess: only the worker the client still has makes it latch a failure.
FailedClient(c, w) ==
    IF Tracked(c, w) THEN [Stopped(c) EXCEPT ![c].failed = @ \/ client[c].open] ELSE client

\* Mutant of Abandoned: the worker of a request that went away counts as failed.
AbandonedAsFailed(c, w) == FailedClient(c, w)
\* stopProcess: an exchange that its context ended is no failure of the worker.
Abandoned(c, w) == Untracked(c, w)

\* stopProcess and failProcess stop the worker only while the client has it.
Survivors(c, w) == IF Tracked(c, w) THEN alive \ {<<c, w>>} ELSE alive

\* invalidateLocked and stopLocked, as Close calls them.
Closed(c) ==
    [Stopped(c) EXCEPT ![c].open = FALSE, ![c].failed = FALSE,
                       ![c].verified = FALSE, ![c].cache = {}]

\* The actor x gives its slot back.
Freed(x, clients) ==
    [c \in Client |-> IF clients[c].slot = x THEN [clients[c] EXCEPT !.slot = Nobody]
                      ELSE clients[c]]

Trouble(clients) ==
    /\ troubles < MaxTroubles /\ troubles' = troubles + 1
    /\ broken' = broken \cup clients /\ upset' = upset \cup Running
Fault(c) == Trouble({c})
NoFault == UNCHANGED <<troubles, broken, upset>>

\* Detect or prepare returns ErrDetectorUnavailable.  A request that was with
\* the fallback turns to the selected model.
Unavailable(x, clients) ==
    /\ client' = Freed(x, clients)
    /\ at' = [at EXCEPT ![x] =
        IF x \in Client THEN [@ EXCEPT !.pc = "failed"]
        ELSE IF at[x].counted
        THEN [Rest EXCEPT !.pc = "check", !.on = at[x].target, !.target = at[x].target,
                          !.want = at[x].want, !.left = Text]
        ELSE [Rest EXCEPT !.pc = "refused"]]

\* Detect returns with findings, or with an error that is passed on.
Returns(x, clients) ==
    /\ client' = Freed(x, clients)
    /\ at' = [at EXCEPT ![x] = [Rest EXCEPT !.pc = "done"]]

Goes(x, pc) == at' = [at EXCEPT ![x].pc = pc]

-----------------------------------------------------------------------------
(* The policy and the installations.  A change through the control API holds *)
(* privacyMu from the check of the entity tag until the hand-over has closed *)
(* what it released, and so does a deletion.                                 *)

PrivacyMuFree == changing = <<>> /\ released = {}

\* patchPolicy up to UpdatePolicy.
PatchPolicy(p) ==
    /\ PrivacyMuFree /\ policies < MaxPolicies /\ policies' = policies + 1
    /\ p \in Model => p \in installed
    /\ stored' = p /\ changing' = <<p>> /\ upset' = upset \cup Running
    /\ UNCHANGED <<installed, handover, client, alive, at, broken, troubles>>

\* A policy that comes from another device is stored and not applied
\* (syncWritePolicy).
SyncedPolicy(p) ==
    /\ p # stored /\ stored' = p
    /\ Trouble({})
    /\ UNCHANGED <<changing, installed, handover, client, alive, at, policies>>

\* deletePrivacyModelInstallation, for a model the stored policy does not name.
DeleteModel(m) ==
    /\ PrivacyMuFree /\ m \in installed /\ stored # m
    /\ installed' = installed \ {m}
    /\ Trouble({c \in Client : client[c].model = m})
    /\ UNCHANGED <<stored, changing, handover, client, alive, at, policies>>

\* servingLocked: the detector that inspects requests right now.
Serving ==
    IF target # 0
    THEN IF prep.state \in {"preparing", "failed"} THEN fallback
         ELSE IF client[target].open /\ ~client[target].failed THEN target ELSE 0
    ELSE IF policy = Regex THEN Regex ELSE 0

\* Mutant of Releases: the detector that served before the last one is forgotten.
ReleasesTarget(serving) == ({target} \cap Client) \ {serving}
\* The clients that no longer inspect.
Releases(serving) == ({target, fallback} \cap Client) \ {serving}

\* Handover.ApplyPolicy, up to the closing of the clients it releases.
ApplyPolicy ==
    /\ changing # <<>>
    /\ LET p == changing[1]
           next == 1 + Cardinality({c \in Client : client[c].model # Off})
           ahead == p \in installed /\ p \in Accelerated
           serving == IF ahead THEN Serving ELSE 0
       IN  /\ policy' = p /\ changing' = <<>>
           /\ IF p \notin Model
              THEN /\ released' = Releases(0)
                   /\ target' = 0 /\ prep' = NoPrep /\ fallback' = 0
                   /\ UNCHANGED <<client, at>>
              ELSE IF target # 0 /\ client[target].model = p /\ prep.state # "failed"
              THEN UNCHANGED <<released, target, prep, fallback, client, at>>
              ELSE /\ released' = Releases(serving)
                   /\ client' = [client EXCEPT ![next] =
                          [Unused EXCEPT !.open = TRUE, !.model = p]]
                   /\ target' = next /\ fallback' = serving
                   /\ IF ahead
                      THEN /\ prep' = [of |-> next, state |-> "preparing"]
                           /\ at' = [at EXCEPT ![next] =
                                  [Rest EXCEPT !.pc = "slot", !.on = next, !.want = p]]
                      ELSE prep' = NoPrep /\ UNCHANGED at
    /\ upset' = upset \cup Running
    /\ UNCHANGED <<stored, installed, alive, broken, policies, troubles>>

\* closeClients.
Close(c) ==
    /\ c \in released
    /\ released' = released \ {c}
    /\ client' = Closed(c) /\ alive' = alive \ Workers(c)
    /\ UNCHANGED <<stored, changing, installed, policy, target, prep, fallback, at, upset,
                   broken, policies, troubles>>

-----------------------------------------------------------------------------
(* Requests.                                                                 *)

\* A request reads the policy; only one with a local model gets here.
ReadPolicy(r) ==
    /\ at[r].pc = "idle" /\ stored \in Model
    /\ at' = [at EXCEPT ![r] = [Rest EXCEPT !.pc = "read", !.want = stored]]
    /\ upset' = IF changing # <<>> \/ stored # policy \/ stored \notin installed
                   \/ {target, fallback} \cap broken # {}
                THEN upset \cup {r} ELSE upset
    /\ UNCHANGED <<stored, changing, installed, handover, client, alive, broken, policies, troubles>>

\* Handover.Detect: who inspects the request.  A request with the fallback is
\* counted in its inflight.
Detect(r) ==
    /\ at[r].pc = "read"
    /\ LET waits == /\ target # 0 /\ prep.state \in {"preparing", "failed"}
                    /\ fallback # 0 /\ at[r].want = client[target].model
       IN IF target = 0 THEN at' = [at EXCEPT ![r] = [Rest EXCEPT !.pc = "refused"]]
          ELSE IF waits /\ fallback = Regex
          THEN at' = [at EXCEPT ![r] = [Rest EXCEPT !.pc = "done"]]
          ELSE at' = [at EXCEPT ![r].pc = "check", ![r].left = Text, ![r].target = target,
                                ![r].on = IF waits THEN fallback ELSE target,
                                ![r].counted = waits]
    /\ NoFault
    /\ UNCHANGED <<stored, changing, installed, handover, client, alive, policies>>

\* The pieces of a request that the cache already answers; an installation
\* that is not ready has none.
Cached(c) == IF client[c].model \in installed THEN client[c].cache ELSE {}

\* Client.Detect before the first batch.
Check(r) ==
    /\ at[r].pc = "check"
    /\ LET c == at[r].on
           left == at[r].left \ Cached(c)
       IN IF ~client[c].open \/ (~at[r].counted /\ at[r].want # client[c].model)
          THEN Unavailable(r, client)
          ELSE IF left = {} THEN Returns(r, client)
          ELSE /\ at' = [at EXCEPT ![r].pc = "slot", ![r].left = left]
               /\ UNCHANGED client
    /\ NoFault
    /\ UNCHANGED <<stored, changing, installed, handover, alive, policies>>

Batch(x) == CHOOSE t \in at[x].left : \A u \in at[x].left : t <= u

\* The next batch, or the end of the inspection.
Inspected(r, left, clients) ==
    IF left = {} THEN Returns(r, clients)
    ELSE /\ client' = Freed(r, clients)
         /\ at' = [at EXCEPT ![r].pc = "slot", ![r].left = left,
                             ![r].worker = 0, ![r].attempt = 0]

\* inspectBatch and prepare take the client's slot.  Another request may have
\* inspected the same piece meanwhile.
TakeSlot(x) ==
    /\ at[x].pc = "slot"
    /\ LET c == at[x].on
           mine == [client EXCEPT ![c].slot = x]
       IN  /\ client[c].slot = Nobody
           /\ IF x \in Request /\ Batch(x) \in Cached(c)
              THEN Inspected(x, at[x].left \ {Batch(x)}, mine)
              ELSE client' = mine /\ Goes(x, "ensure")
    /\ NoFault
    /\ UNCHANGED <<stored, changing, installed, handover, alive, policies>>

-----------------------------------------------------------------------------
(* ensureProcess.                                                            *)

\* A worker of this installation that runs is used; any other is stopped.
Ensure(x) ==
    /\ at[x].pc = "ensure"
    /\ LET c == at[x].on
           w == client[c].process
       IN IF ~client[c].open THEN Unavailable(x, client) /\ UNCHANGED alive
          ELSE IF client[c].model \notin installed
          THEN /\ Unavailable(x, [Stopped(c) EXCEPT ![c].verified = FALSE, ![c].failed = FALSE])
               /\ alive' = alive \ Workers(c)
          ELSE IF client[c].failed THEN Unavailable(x, client) /\ UNCHANGED alive
          ELSE IF <<c, w>> \in alive
          THEN /\ at' = [at EXCEPT ![x].pc = IF x \in Client THEN "prepared" ELSE "exchange",
                                   ![x].worker = w]
               /\ client' = IF x \in Client THEN Freed(x, client) ELSE client
               /\ UNCHANGED alive
          ELSE /\ client' = Stopped(c) /\ alive' = alive \ Workers(c)
               /\ Goes(x, IF client[c].verified THEN "start" ELSE "validate")
    /\ NoFault
    /\ UNCHANGED <<stored, changing, installed, handover, policies>>

\* latchKeyIfCurrent.
Latched(c) == [client EXCEPT ![c].failed = @ \/ client[c].open]

\* validateInstalledModel hashes the files: they are whole, or not what the
\* installation says, or the client is closed meanwhile.
Validate(x) ==
    /\ at[x].pc = "validate"
    /\ LET c == at[x].on
       IN \/ Goes(x, "start") /\ NoFault /\ UNCHANGED client
          \/ ~client[c].open /\ Unavailable(x, client) /\ NoFault
          \/ client[c].model \notin installed /\ Unavailable(x, Latched(c)) /\ NoFault
          \/ Fault(c) /\ Unavailable(x, Latched(c))
    /\ UNCHANGED <<stored, changing, installed, handover, alive, policies>>

\* The installation is looked up again and the worker started, under the
\* client's lock.
Start(x) ==
    /\ at[x].pc = "start"
    /\ LET c == at[x].on
           w == client[c].started + 1
           verified == [Stopped(c) EXCEPT ![c].verified = TRUE]
       IN IF ~client[c].open \/ client[c].model \notin installed
          THEN Unavailable(x, client) /\ NoFault /\ UNCHANGED alive
          ELSE \/ /\ client' = [verified EXCEPT ![c].starting = w, ![c].started = w]
                  /\ alive' = (alive \ Workers(c)) \cup {<<c, w>>}
                  /\ at' = [at EXCEPT ![x].pc = "starting", ![x].worker = w]
                  /\ NoFault
               \/ /\ Fault(c)
                  /\ Unavailable(x, [verified EXCEPT ![c].failed = TRUE])
                  /\ alive' = alive \ Workers(c)
    /\ UNCHANGED <<stored, changing, installed, handover, policies>>

\* awaitReady: the worker reports ready; or it is gone, answers nonsense or
\* takes too long, which failProcess counts against the installation.
AwaitReady(x) ==
    /\ at[x].pc = "starting"
    /\ LET c == at[x].on
           w == at[x].worker
       IN \/ /\ <<c, w>> \in alive
             /\ Goes(x, "adopt") /\ NoFault /\ UNCHANGED <<client, alive>>
          \/ /\ \/ <<c, w>> \notin alive /\ NoFault
                \/ <<c, w>> \in alive /\ Fault(c)
             /\ Unavailable(x, FailedClient(c, w)) /\ alive' = Survivors(c, w)
    /\ UNCHANGED <<stored, changing, installed, handover, policies>>

\* The worker is still the one the client starts.
Adopted(c, w) == client[c].starting = w /\ client[c].open

Adopt(x) ==
    /\ at[x].pc = "adopt"
    /\ LET c == at[x].on
           w == at[x].worker
       IN IF ~Adopted(c, w)
          THEN Unavailable(x, Untracked(c, w)) /\ alive' = Survivors(c, w)
          ELSE IF <<c, w>> \notin alive
          THEN Unavailable(x, [client EXCEPT ![c].starting = 0, ![c].failed = TRUE])
               /\ UNCHANGED alive
          ELSE LET taken == [client EXCEPT ![c].starting = 0, ![c].process = w]
               IN /\ client' = IF x \in Client THEN Freed(x, taken) ELSE taken
                  /\ Goes(x, IF x \in Client THEN "prepared" ELSE "exchange")
                  /\ UNCHANGED alive
    /\ NoFault
    /\ UNCHANGED <<stored, changing, installed, handover, policies>>

-----------------------------------------------------------------------------
(* detectBatch.                                                              *)

\* The worker answers, maybe that the frame has too many tokens.
Exchange(r) ==
    /\ at[r].pc = "exchange" /\ <<at[r].on, at[r].worker>> \in alive
    /\ \/ Goes(r, "store") /\ UNCHANGED client
       \/ Returns(r, client)
    /\ NoFault
    /\ UNCHANGED <<stored, changing, installed, handover, alive, policies>>

\* The pipe to the worker breaks or carries no frame: one more worker is tried.
ExchangeBreaks(r) ==
    /\ at[r].pc = "exchange"
    /\ LET c == at[r].on
           w == at[r].worker
       IN  /\ IF <<c, w>> \in alive THEN Fault(c) ELSE NoFault
           /\ alive' = Survivors(c, w)
           /\ IF at[r].attempt = 0
              THEN /\ client' = Untracked(c, w)
                   /\ at' = [at EXCEPT ![r].pc = "ensure", ![r].attempt = 1]
              ELSE Unavailable(r, FailedClient(c, w))
    /\ UNCHANGED <<stored, changing, installed, handover, policies>>

\* The worker's answer is none the protocol knows, or does not come in time.
ExchangeFails(r) ==
    /\ at[r].pc = "exchange"
    /\ LET c == at[r].on
           w == at[r].worker
       IN  /\ <<c, w>> \in alive /\ Fault(c) /\ alive' = Survivors(c, w)
           /\ \/ Unavailable(r, FailedClient(c, w))
              \/ Returns(r, Untracked(c, w))
    /\ UNCHANGED <<stored, changing, installed, handover, policies>>

\* complete: the piece is cached, even if the client was closed meanwhile.
Store(r) ==
    /\ at[r].pc = "store"
    /\ LET c == at[r].on
       IN Inspected(r, at[r].left \ {Batch(r)},
                    [client EXCEPT ![c].cache = @ \cup {Batch(r)}])
    /\ NoFault
    /\ UNCHANGED <<stored, changing, installed, handover, alive, policies>>

\* The client of the gateway goes away, or its deadline passes; one whose
\* inspection takes longer than its budget is given up between two batches.
GiveUp(r) ==
    /\ at[r].pc \in {"slot", "validate", "starting", "exchange"}
    /\ LET c == at[r].on
           w == at[r].worker
       IN IF at[r].pc \in {"starting", "exchange"}
          THEN Returns(r, Abandoned(c, w)) /\ alive' = Survivors(c, w)
          ELSE Returns(r, client) /\ UNCHANGED alive
    /\ NoFault
    /\ UNCHANGED <<stored, changing, installed, handover, policies>>

Crash(c, w) ==
    /\ <<c, w>> \in alive /\ Fault(c)
    /\ alive' = alive \ {<<c, w>>}
    /\ UNCHANGED <<stored, changing, installed, handover, client, at, policies>>

-----------------------------------------------------------------------------
(* Handover.prepare.                                                         *)

\* The preparation of a client has ended.
Prepared(c) ==
    /\ at[c].pc \in {"prepared", "failed"}
    /\ IF prep.of # c THEN at' = [at EXCEPT ![c] = Rest] /\ UNCHANGED <<prep, fallback>>
       ELSE IF at[c].pc = "failed"
       THEN /\ prep' = [prep EXCEPT !.state = "failed"] /\ UNCHANGED fallback
            /\ at' = [at EXCEPT ![c] = Rest]
       ELSE /\ prep' = [prep EXCEPT !.state = "ready"] /\ fallback' = 0
            /\ at' = [at EXCEPT ![c] =
                   IF fallback \in Client
                   THEN [Rest EXCEPT !.pc = "retiring", !.on = fallback] ELSE Rest]
    /\ NoFault
    /\ UNCHANGED <<stored, changing, installed, policy, target, released, client, alive, policies>>

\* The requests that were counted when they turned to the fallback.
Inflight(c) == {r \in Request : at[r].counted /\ at[r].on = c}

\* The previous client is closed once nobody counted is left.
Retire(c) ==
    /\ at[c].pc = "retiring" /\ Inflight(at[c].on) = {}
    /\ client' = Closed(at[c].on) /\ alive' = alive \ Workers(at[c].on)
    /\ at' = [at EXCEPT ![c] = Rest]
    /\ NoFault
    /\ UNCHANGED <<stored, changing, installed, handover, policies>>

-----------------------------------------------------------------------------
EnsureProcess(x) == Ensure(x) \/ Validate(x) \/ Start(x) \/ AwaitReady(x) \/ Adopt(x)
Serve(r) == Detect(r) \/ Check(r) \/ Exchange(r) \/ ExchangeBreaks(r) \/ Store(r)
Prepare(c) == Prepared(c) \/ Retire(c)
\* The goroutine of x, which is at one place at a time.
Runs(x) ==
    \/ TakeSlot(x) \/ EnsureProcess(x)
    \/ x \in Request /\ Serve(x)
    \/ x \in Client /\ Prepare(x)
Closing == \E c \in Client : Close(c)

Next ==
    \/ \E p \in Policy : PatchPolicy(p) \/ SyncedPolicy(p)
    \/ \E m \in Model : DeleteModel(m)
    \/ ApplyPolicy \/ Closing
    \/ \E x \in Actor : Runs(x)
    \/ \E c \in Client : \E w \in 1 .. client[c].started : Crash(c, w)
    \/ \E r \in Request : ReadPolicy(r) \/ ExchangeFails(r) \/ GiveUp(r)

Spec == Init /\ [][Next]_vars

\* Goroutines run; a worker answers or its timer ends the wait.
Fairness ==
    /\ WF_vars(ApplyPolicy) /\ WF_vars(Closing)
    /\ \A x \in Actor : WF_vars(Runs(x))
FairSpec == Spec /\ Fairness

-----------------------------------------------------------------------------
\* A worker that runs is known to its client, which has one at a time and none
\* once it is closed; a client that is open is used, prepared or about to be
\* closed; whoever is with a worker has the slot; and a model is refused as
\* failed only after a worker or its files did fail: what was stopped on
\* purpose never counts.
WorkerInv ==
    /\ \A c \in Client :
        /\ {w \in 1 .. client[c].started : <<c, w>> \in alive}
             \subseteq {client[c].process, client[c].starting}
        /\ client[c].process = 0 \/ client[c].starting = 0
        /\ ~client[c].open => client[c].process = 0 /\ client[c].starting = 0
        /\ client[c].open =>
             c \in {target, fallback} \cup released \cup {at[p].on : p \in Client}
        /\ client[c].failed => c \in broken
    /\ \A x \in Actor :
        at[x].pc \in {"ensure", "validate", "start", "starting", "adopt", "exchange", "store"} =>
            client[at[x].on].slot = x
    /\ prep.of \in {0, target} /\ (prep = NoPrep => fallback = 0)

\* A request is refused only if, since it read the policy, the policy or an
\* installation changed or a worker failed: the end of a preparation, and
\* what other requests do, never cost it its inspection.
RefusedForCause == \A r \in Request : at[r].pc = "refused" => r \in upset

\* Every inspection and every preparation ends, and in the end no client is
\* kept but those that inspect requests: the selected model's and the fallback's.
WorkersSettle ==
    <>[](/\ Running = {} /\ \A c \in Client : at[c].pc = "idle"
         /\ \A c \in Client : client[c].open => c \in {target, fallback})

\* What prepare says: requests already inspecting with the previous model
\* finish there.
PreviousModelFinishes ==
    [][\A c \in Client : at[c].pc = "retiring" /\ at'[c].pc = "idle" =>
        ~\E r \in Request : at[r].on = at[c].on /\ at[r].pc = "exchange"]_vars
=============================================================================
