----------------------------- MODULE CoreStatus -----------------------------
(***************************************************************************)
(* What the main window knows of Core: the status poll, the restart from   *)
(* the overview and the actions of the settings page, all of which replace *)
(* the one snapshot the window renders (apps/desktop/src/App.tsx,          *)
(* request-gate.ts, SettingsCenter.tsx, bridge.ts).                        *)
(*                                                                         *)
(* The request gate numbers the requests; a request that is no longer      *)
(* current is marked so here instead, and its answer is ignored.           *)
(***************************************************************************)
EXTENDS Naturals, FiniteSets

CONSTANTS
    MaxEpoch,     \* changes of Core's state
    MaxFailures,  \* status reads that fail or take longer than 10 seconds
    MaxActions    \* restarts and settings actions

\* What the instances and the proofs assume of the constants.
StatusAssumption == MaxEpoch \in Nat /\ MaxFailures \in Nat /\ MaxActions \in Nat

VARIABLES
    core,       \* number of the state Core is in (the host's own snapshot)
    snapshot,   \* number of the state the window shows
    failed,     \* the window shows that it could not read the status
    exclusive,  \* RequestGate.exclusive
    polling,    \* the poll: "idle" between two reads, or "asked"
    calls,      \* status reads and actions in flight
    restarting, \* isRestarting
    beside,     \* history: an answer of the settings page has been shown
    failures, actions

vars == <<core, snapshot, failed, exclusive, polling, calls, restarting, beside, failures, actions>>

Kind == {"poll", "restart", "action", "pending"}
\* current: the gate's generation has not moved on since the call was begun.
Call(kind) == [kind |-> kind, current |-> TRUE, seen |-> 0, done |-> FALSE]
Outdated(cs) == {[c EXCEPT !.current = FALSE] : c \in cs}
\* Mutant of Begun: a new request leaves the older ones current.
BegunBeside(cs, kind) == cs \cup {Call(kind)}
Begun(cs, kind) == Outdated(cs) \cup {Call(kind)}

Init ==
    /\ core = 1 /\ snapshot = 0 /\ failed = FALSE
    /\ exclusive = FALSE /\ restarting = FALSE /\ beside = FALSE
    /\ polling = "idle" /\ calls = {}
    /\ failures = 0 /\ actions = 0

\* Core starts, becomes ready, fails or recovers on its own.
CoreMoves ==
    /\ core < MaxEpoch
    /\ core' = core + 1
    /\ UNCHANGED <<snapshot, failed, exclusive, polling, calls, restarting, beside, failures, actions>>

-----------------------------------------------------------------------------
\* refreshCore: while an exclusive request is under way the poll waits for
\* its next turn.
Poll ==
    /\ polling = "idle"
    /\ IF exclusive
       THEN UNCHANGED <<calls, polling>>
       ELSE calls' = Begun(calls, "poll") /\ polling' = "asked"
    /\ UNCHANGED <<core, snapshot, failed, exclusive, restarting, beside, failures, actions>>

\* handleRestart
Restart ==
    /\ actions < MaxActions /\ ~exclusive
    /\ exclusive' = TRUE /\ restarting' = TRUE
    /\ calls' = Begun(calls, "restart")
    /\ actions' = actions + 1
    /\ UNCHANGED <<core, snapshot, failed, polling, beside, failures>>

\* runCoreAction of the settings page, and the read after a launch setting
\* was saved: neither goes through the gate.
FromSettings(kind) ==
    /\ actions < MaxActions
    /\ calls' = calls \cup {Call(kind)}
    /\ actions' = actions + 1
    /\ UNCHANGED <<core, snapshot, failed, exclusive, polling, restarting, beside, failures>>

\* The host answers: a restart or an action has moved Core by then.
Serve(c) ==
    /\ ~c.done
    /\ IF c.kind \in {"restart", "action"} THEN core' = core + 1 ELSE UNCHANGED core
    /\ calls' = (calls \ {c}) \cup {[c EXCEPT !.done = TRUE, !.seen = core']}
    /\ UNCHANGED <<snapshot, failed, exclusive, polling, restarting, beside, failures, actions>>

\* A read fails, or its time limit passes first; so may an action.
Fail(c) ==
    /\ failures < MaxFailures /\ (c.kind = "restart" => ~c.done)
    /\ c.seen # 0 \/ ~c.done
    /\ calls' = (calls \ {c}) \cup {[c EXCEPT !.done = TRUE, !.seen = 0]}
    /\ failures' = failures + 1
    /\ UNCHANGED <<core, snapshot, failed, exclusive, polling, restarting, beside, actions>>

Shows(c) ==
    IF c.seen # 0 THEN snapshot' = c.seen /\ failed' = FALSE
    ELSE failed' = TRUE /\ UNCHANGED snapshot

PollAnswered(c) ==
    /\ c.kind = "poll"
    /\ IF c.current THEN Shows(c) ELSE UNCHANGED <<snapshot, failed>>
    /\ polling' = "idle"
    /\ UNCHANGED <<exclusive, restarting, beside>>

\* Mutant of EndsExclusive: the exclusive request is not ended when it failed.
EndsExclusiveOnSuccess(c) == c.current /\ c.seen # 0
\* endExclusive: only the request that holds the gate opens it again.
EndsExclusive(c) == c.current

RestartAnswered(c) ==
    /\ c.kind = "restart"
    /\ IF c.current THEN Shows(c) ELSE UNCHANGED <<snapshot, failed>>
    /\ IF EndsExclusive(c) THEN exclusive' = FALSE /\ restarting' = FALSE
       ELSE UNCHANGED <<exclusive, restarting>>
    /\ UNCHANGED <<polling, beside>>

\* setSnapshot is handed to the settings page as it is.
SettingsAnswered(c) ==
    /\ c.kind \in {"action", "pending"}
    /\ IF c.seen # 0 THEN Shows(c) /\ beside' = TRUE ELSE UNCHANGED <<snapshot, failed, beside>>
    /\ UNCHANGED <<polling, exclusive, restarting>>

Answer(c) ==
    /\ c.done
    /\ calls' = calls \ {c}
    /\ PollAnswered(c) \/ RestartAnswered(c) \/ SettingsAnswered(c)
    /\ UNCHANGED <<core, failures, actions>>

Next ==
    \/ CoreMoves \/ Poll \/ Restart
    \/ \E kind \in {"action", "pending"} : FromSettings(kind)
    \/ \E c \in calls : Serve(c) \/ Fail(c) \/ Answer(c)

Spec == Init /\ [][Next]_vars
Served(kind) == \E c \in calls : c.kind = kind /\ Serve(c)
Answered(kind) == \E c \in calls : c.kind = kind /\ Answer(c)
\* The poll goes on, every call is answered, and answers are handled.
Fairness ==
    /\ WF_vars(Poll)
    /\ \A kind \in Kind :
        WF_vars(Served(kind)) /\ WF_vars(Answered(kind))
FairSpec == Spec /\ Fairness

-----------------------------------------------------------------------------
TypeOK ==
    /\ core \in Nat /\ snapshot \in Nat /\ failed \in BOOLEAN
    /\ exclusive \in BOOLEAN /\ restarting \in BOOLEAN /\ beside \in BOOLEAN
    /\ polling \in {"idle", "asked"}
    /\ calls \subseteq [kind : Kind, current : BOOLEAN, seen : Nat, done : BOOLEAN]
    /\ failures \in Nat /\ actions \in Nat

\* The gate lets one request through at a time: the latest.
Gated == {c \in calls : c.kind \in {"poll", "restart"} /\ c.current}
OneIsCurrent == \A c, d \in Gated : c = d

\* Exactly the restart that closed the gate keeps it closed: no poll is left
\* to overwrite its answer, and none is locked out for ever.
RestartHoldsGate ==
    /\ exclusive <=> \E c \in calls : c.kind = "restart" /\ c.current
    /\ restarting = exclusive

\* An answer is no newer than Core, and the gate's is no older than what the
\* window shows.
AnswersInOrder ==
    /\ snapshot <= core
    /\ \A c \in calls : c.seen <= core /\ (~c.done => c.seen = 0)
    /\ beside \/ \A c \in Gated : c.seen # 0 => snapshot <= c.seen

\* The inductive invariant of the status.
StatusInv == TypeOK /\ OneIsCurrent /\ RestartHoldsGate /\ AnswersInOrder

\* The window never goes back to an older state of Core, unless the settings
\* page, whose actions bypass the gate, has shown an answer before.
SnapshotNeverGoesBack == [][~beside' => snapshot' >= snapshot]_vars

\* The window ends up with the state Core ends up in.
Current == snapshot = core /\ ~failed
WindowCatchesUp == <>[]Current
=============================================================================
