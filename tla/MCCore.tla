------------------------------- MODULE MCCore -------------------------------
(***************************************************************************)
(* An instance of CoreParts for TLC.  The parts share nothing: a behaviour *)
(* follows the part that open names, while the others rest.                *)
(***************************************************************************)
EXTENDS CoreParts

CONSTANTS q1, q2

VARIABLE open

\* Bounds of the model: the second request plays the same part as the first, and
\* is there while at most two policies were chosen, the second of them only
\* without a trouble; a third policy is chosen before there is a request or
\* without a trouble.
Requests ==
    /\ at'[q2].pc # "idle" =>
         at'[q1].pc # "idle" /\ policies' <= (IF troubles' = 0 THEN 2 ELSE 1)
    /\ policies' = 3 => at'[q1].pc = "idle" \/ troubles' = 0

MCInit ==
    /\ CoreInit
    /\ open \in {"raw", "files", "worker"}
    \* A part that rests has one initial state only.
    /\ open # "raw" => key = 0
    /\ open # "worker" => stored = Off

MCNext ==
    /\ UNCHANGED open
    /\ \/ open = "raw" /\ RawSteps
       \/ open = "files" /\ FilesStep
       \/ open = "worker" /\ WorkerSteps /\ Requests

\* Each part is scheduled as its own specification says, while it is open.
MCFairness ==
    /\ WF_rawVars(open = "raw" /\ Raw!Passes) /\ WF_rawVars(open = "raw" /\ Raw!CacheKey)
    /\ \A p \in Part :
        /\ WF_rawVars(open = "raw" /\ Raw!Settles(p))
        /\ WF_rawVars(open = "raw" /\ Raw!EndRequest(p))
    /\ WF_workerVars(open = "worker" /\ ApplyPolicy)
    /\ WF_workerVars(open = "worker" /\ Closing)
    /\ \A x \in Actor : WF_workerVars(open = "worker" /\ Runs(x))
MCSpec == MCInit /\ [][MCNext]_<<open, coreVars>> /\ MCFairness
=============================================================================
