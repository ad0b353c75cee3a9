---------------------------- MODULE ModelLibrary ----------------------------
(***************************************************************************)
(* The privacy models on the safety page: the list read when the page is   *)
(* opened or refreshed, the progress asked for while something downloads,  *)
(* and the operator's installs, pauses, resumes and removals, each an      *)
(* exchange with Core (apps/desktop/src/SafetyPolicy.tsx, against          *)
(* core/internal/privacymodel/registry.go and resume.go).                  *)
(*                                                                         *)
(* A model's state at Core carries the number of its changes.              *)
(***************************************************************************)
EXTENDS Naturals, FiniteSets

CONSTANTS
    Model,
    MaxOps, MaxFaults, MaxVisits,   \* bounds on the operator, failures and page visits
    Early       \* the operator acts while the page is still reading its list

\* What the instances assume of the constants.
LibraryAssumption ==
    /\ MaxOps \in Nat /\ MaxFaults \in Nat /\ MaxVisits \in Nat \ {0} /\ Early \in BOOLEAN

VARIABLES
    core,       \* the registry's installations
    rows,       \* installations of the page, kept across its visits
    load,       \* load()
    op,         \* the call operationBusy stands for
    lost,       \* calls of an earlier visit that Core has not taken up
    poll,       \* the effect that asks for progress
    left,       \* history: the page was left with a call on its way
    unheard,    \* history: models changed by a call the page has no answer to, since it
                \* last read its list
    ops, faults, visits

vars == <<core, rows, load, op, lost, poll, left, unheard, ops, faults, visits>>

None == [status |-> "none", changes |-> 0]
NoCall == [kind |-> "none", model |-> CHOOSE m \in Model : TRUE, phase |-> "idle", answer |-> None]
NoLoad == [phase |-> "idle", cached |-> TRUE, hidden |-> FALSE, list |-> [m \in Model |-> None]]
Off == [phase |-> "off", ids |-> {}, current |-> FALSE, answers |-> [m \in Model |-> None]]
Downloading(list) == {m \in Model : list[m].status = "downloading"}
Fault == faults < MaxFaults /\ faults' = faults + 1

Init ==
    /\ core \in [Model -> {None, [status |-> "ready", changes |-> 0], [status |-> "downloading", changes |-> 0]}]
    /\ rows = [m \in Model |-> None]
    /\ load = [NoLoad EXCEPT !.phase = "sent", !.cached = FALSE]
    /\ op = NoCall /\ lost = {} /\ poll = Off /\ left = FALSE /\ unheard = {}
    /\ ops = 0 /\ faults = 0 /\ visits = 1

-----------------------------------------------------------------------------
\* The effect runs again when the set of downloads on the page changes: what
\* an earlier poll still answers is not used.
Repolled(list, before) ==
    LET ids == Downloading(list)
    IN IF ids = before.ids THEN before
       ELSE IF ids = {} THEN Off
       ELSE [Off EXCEPT !.phase = "timer", !.ids = ids, !.current = TRUE]
Show(list, before) == rows' = list /\ poll' = Repolled(list, before)

\* pollRequestRef.current += 1.
Invalidated == [poll EXCEPT !.current = FALSE]

-----------------------------------------------------------------------------
\* The page is left and opened again: its calls are on their way to Core, and
\* their answers are not looked at.
Visit ==
    /\ visits < MaxVisits /\ visits' = visits + 1
    /\ lost' = IF op.phase = "sent" THEN lost \cup {[kind |-> op.kind, model |-> op.model]} ELSE lost
    /\ left' = (left \/ op.phase = "sent")
    /\ op' = NoCall
    /\ load' = [NoLoad EXCEPT !.phase = "sent", !.cached = load.cached]
    /\ poll' = Repolled(rows, Off)
    /\ UNCHANGED <<core, rows, unheard, ops, faults>>

\* The page is shown before its list is read if an earlier visit read it, and is not
\* shown once the reading has failed.
Loading == load.phase \in {"sent", "read"}
Shown == load.phase = "idle" \/ (Loading /\ load.cached /\ ~load.hidden)

\* refresh: everything in flight is given up, and the list is cleared.
Refresh ==
    /\ visits < MaxVisits /\ visits' = visits + 1
    /\ op = NoCall /\ (Shown \/ load.phase = "failed")
    /\ load' = [NoLoad EXCEPT !.phase = "sent", !.cached = load.cached, !.hidden = TRUE]
    /\ Show([m \in Model |-> None], Off)
    /\ UNCHANGED <<core, op, lost, left, unheard, ops, faults>>

LoadRead ==
    /\ load.phase = "sent"
    /\ load' = [load EXCEPT !.phase = "read", !.list = core]
    /\ unheard' = {}
    /\ UNCHANGED <<core, rows, op, lost, poll, left, ops, faults, visits>>

LoadAnswered ==
    /\ load.phase = "read"
    /\ load' = NoLoad
    /\ Show(load.list, poll)
    /\ UNCHANGED <<core, op, lost, left, unheard, ops, faults, visits>>

\* The page says that its list is unavailable, and reads it again only if it is asked.
LoadFailed ==
    /\ Loading /\ Fault
    /\ load' = [NoLoad EXCEPT !.phase = "failed", !.cached = load.cached]
    /\ UNCHANGED <<core, rows, op, lost, poll, left, unheard, ops, visits>>

-----------------------------------------------------------------------------
Usable == Shown /\ (Early \/ ~Loading)
\* The operator's button, by what the row shows.
Offered(m) ==
    CASE rows[m].status = "none" -> {"install"}
      [] rows[m].status = "downloading" -> {"pause", "remove"}
      [] rows[m].status = "stopped" -> {"resume", "remove"}
      [] OTHER -> {"remove"}
Operate(m) ==
    /\ ops < MaxOps /\ ops' = ops + 1
    /\ op = NoCall /\ Usable
    /\ \E kind \in Offered(m) : op' = [NoCall EXCEPT !.kind = kind, !.model = m, !.phase = "sent"]
    /\ UNCHANGED <<core, rows, load, lost, poll, left, unheard, faults, visits>>

\* What Core makes of a call: a new state, or a refusal.
Changed(m, status) == [status |-> status, changes |-> core[m].changes + 1]
Effect(kind, m) ==
    CASE kind \in {"install", "resume"} /\ core[m].status \in {"none", "stopped"} ->
           IF kind = "resume" /\ core[m].status = "none" THEN {} ELSE {Changed(m, "downloading")}
      [] kind = "pause" /\ core[m].status = "downloading" -> {Changed(m, "stopped"), Changed(m, "ready")}
      [] kind = "pause" /\ core[m].status \in {"stopped", "ready"} -> {core[m]}
      [] kind = "remove" /\ core[m].status # "none" -> {Changed(m, "none")}
      [] OTHER -> {}
\* A call is turned down, lost before Core has it, or carried out.
TurnedDown(call) ==
    /\ IF Effect(call.kind, call.model) = {} THEN UNCHANGED faults ELSE Fault
    /\ UNCHANGED <<core, unheard>>
CarriedOut(call, next) ==
    /\ next \in Effect(call.kind, call.model)
    /\ core' = [core EXCEPT ![call.model] = next]

\* What the page does not get to know of: the row of a pause is being polled.
Unnoticed(call) == IF call.kind = "pause" THEN {} ELSE {call.model}

\* Mutant of Serve: a pause answers without waiting for the writer to stop.
ServeUnwaited ==
    /\ op.phase = "sent"
    /\ \/ \E next \in Effect(op.kind, op.model) :
            /\ CarriedOut(op, next)
            /\ op' = [op EXCEPT !.phase = "done",
                              !.answer = IF op.kind = "pause" THEN core[op.model] ELSE next]
            /\ unheard' = unheard \ {op.model} /\ UNCHANGED faults
       \/ TurnedDown(op) /\ op' = [op EXCEPT !.phase = "refused"]
    /\ UNCHANGED <<rows, load, lost, poll, left, ops, visits>>
\* Core has carried a call out, and its answer comes or is lost.
Serve ==
    /\ op.phase = "sent"
    /\ \/ \E next \in Effect(op.kind, op.model) :
            /\ CarriedOut(op, next)
            /\ \/ /\ op' = [op EXCEPT !.phase = "done", !.answer = next]
                  /\ unheard' = unheard \ {op.model} /\ UNCHANGED faults
               \/ /\ Fault /\ op' = [op EXCEPT !.phase = "refused"]
                  /\ unheard' = unheard \cup Unnoticed(op)
       \/ TurnedDown(op) /\ op' = [op EXCEPT !.phase = "refused"]
    /\ UNCHANGED <<rows, load, lost, poll, left, ops, visits>>
ServeLost ==
    \E call \in lost :
        /\ lost' = lost \ {call}
        /\ \/ /\ \E next \in Effect(call.kind, call.model) : CarriedOut(call, next)
              /\ unheard' = unheard \cup Unnoticed(call) /\ UNCHANGED faults
           \/ TurnedDown(call)
        /\ UNCHANGED <<rows, load, op, poll, left, ops, visits>>

\* The answer is merged; only a pause, a resume or a removal gives up the
\* progress asked for before it.
Answered ==
    /\ op.phase = "done"
    /\ LET list == [rows EXCEPT ![op.model] = op.answer]
       IN IF op.kind = "install" THEN Show(list, poll) ELSE Show(list, Invalidated)
    /\ op' = NoCall
    /\ UNCHANGED <<core, load, lost, left, unheard, ops, faults, visits>>
Refused ==
    /\ op.phase = "refused" /\ op' = NoCall
    /\ UNCHANGED <<core, rows, load, lost, poll, left, unheard, ops, faults, visits>>

-----------------------------------------------------------------------------
PollSends ==
    /\ poll.phase = "timer"
    /\ poll' = [poll EXCEPT !.phase = "reading", !.answers = [m \in Model |-> None]]
    /\ UNCHANGED <<core, rows, load, op, lost, left, unheard, ops, faults, visits>>

Unread == {m \in poll.ids : poll.answers[m].status = "none"}
PollReads ==
    /\ poll.phase = "reading"
    /\ \E m \in Unread :
        /\ core[m].status # "none"
        /\ poll' = [poll EXCEPT !.answers[m] = core[m]]
    /\ UNCHANGED <<core, rows, load, op, lost, left, unheard, ops, faults, visits>>

\* schedule(): the next poll, if this effect still counts.
Scheduled == IF poll.current THEN [poll EXCEPT !.phase = "timer"] ELSE [poll EXCEPT !.phase = "over"]
PollAnswered ==
    /\ poll.phase = "reading" /\ Unread = {}
    /\ IF poll.current
       THEN Show([m \in Model |-> IF m \in poll.ids /\ rows[m].status # "none"
                                  THEN poll.answers[m] ELSE rows[m]], Scheduled)
       ELSE poll' = Scheduled /\ UNCHANGED rows
    /\ UNCHANGED <<core, load, op, lost, left, unheard, ops, faults, visits>>
\* Mutant of PollFailed: only a poll that is answered schedules the next.
PollFailedForGood ==
    /\ poll.phase = "reading"
    /\ IF \E m \in Unread : core[m].status = "none" THEN UNCHANGED faults ELSE Fault
    /\ poll' = [poll EXCEPT !.phase = "over"]
    /\ UNCHANGED <<core, rows, load, op, lost, left, unheard, ops, visits>>
\* One answer that fails, of a model that is gone for one, fails the poll.
PollFailed ==
    /\ poll.phase = "reading"
    /\ IF \E m \in Unread : core[m].status = "none" THEN UNCHANGED faults ELSE Fault
    /\ poll' = Scheduled
    /\ UNCHANGED <<core, rows, load, op, lost, left, unheard, ops, visits>>

\* A download ends on its own.
Ends(m) ==
    /\ core[m].status = "downloading"
    /\ \E status \in {"ready", "stopped"} : core' = [core EXCEPT ![m] = Changed(m, status)]
    /\ UNCHANGED <<rows, load, op, lost, poll, left, unheard, ops, faults, visits>>

Reading == LoadRead \/ LoadAnswered
Operating == Serve \/ ServeLost \/ Answered \/ Refused
Polling ==
    PollSends \/ PollReads \/ PollAnswered \/ (Unread # {} /\ PollFailed)
Next ==
    \/ Visit \/ Refresh \/ Reading \/ LoadFailed \/ Operating \/ Polling
    \/ \E m \in Model : Operate(m) \/ Ends(m)

Spec == Init /\ [][Next]_vars
\* Calls are answered, timers fire and downloads end.
Fairness ==
    /\ WF_vars(Reading) /\ WF_vars(Operating) /\ WF_vars(Polling)
    /\ \A m \in Model : WF_vars(Ends(m))
FairSpec == Spec /\ Fairness

-----------------------------------------------------------------------------
\* What is asked for is what the page shows as downloading, and a poll that
\* no longer counts follows an operation.
LibraryInv ==
    /\ \A m \in Model : rows[m].status \in {"none", "downloading", "stopped", "ready"}
    /\ poll.ids = Downloading(rows)
    /\ poll.phase = "off" <=> poll.ids = {}
    /\ poll.phase # "off" /\ ~poll.current => ops > 0

\* What the page shows of a model, once its list is read, is never replaced by
\* an older state, whatever the order of the answers.
RowsNeverGoBack ==
    [][visits' = visits /\ load.phase = "idle" /\ ~left =>
         \A m \in Model : rows'[m].changes >= rows[m].changes]_vars

\* The page comes to show what Core has, once the operator has stopped, unless it
\* says that its list could not be read, or that the progress cannot, for a model it
\* asks for is gone.  Two things are not noticed: what a call did whose answer did not
\* reach the page, and what becomes of the downloads after an operation on another
\* model, which ends their polls for good.
CaughtUp ==
    \/ load.phase = "failed" \/ \E m \in poll.ids \cap unheard : core[m].status = "none"
    \/ poll.phase # "off" /\ ~poll.current
    \/ \A m \in Model \ unheard : rows[m].status = core[m].status
RowsCatchUp == <>[]CaughtUp
=============================================================================
