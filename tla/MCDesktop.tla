----------------------------- MODULE MCDesktop -----------------------------
(***************************************************************************)
(* An instance of Desktop for TLC.  The window mounts one page at a time,  *)
(* and its parts share nothing: a behaviour follows the part that open     *)
(* names, while the others rest.                                           *)
(***************************************************************************)
EXTENDS Desktop

CONSTANTS s1, s2, m1, m2, r1, r2, r3

VARIABLE open

\* The high end is tried after the low one, which may only fit once it is in.
MCKeys == <<"low", "high", "redirects">>

MCInit ==
    /\ DesktopInit
    /\ open \in {"status", "services", "routing", "safety", "requests"}
    \* The two services play the same part: if one exists from the start, s1 does.
    /\ services[s2].live => services[s1].live
    \* Nor does it matter which of the conversations is the oldest.
    /\ \A pair \in {<<r1, r2>>, <<r2, r3>>} :
        core[pair[2]].at > 0 =>
            core[pair[1]].at > 0 /\ core[pair[1]].at < core[pair[2]].at
    \* And so do the two models: if there is any, m1 is being downloaded.
    /\ models[m1].status # "ready"
    /\ models[m2].status # "none" => models[m1].status = "downloading"
    \* Both ends of the range start at the lowest value.
    /\ settings = [k \in Routing!Setting |-> 0]
    \* A part that rests has one initial state only.
    /\ open # "services" => services = [s \in Service |-> Services!Unknown]
    /\ open # "safety" => models = [m \in Model |-> Safety!None]
    /\ open # "requests" => clock = 0

\* Two operations and two visits are followed with one model only, with two models
\* the second operation or the second visit.
WithinBounds ==
    MaxOps + MaxVisits \in {ops + visits, ops' + visits'} =>
        /\ models'[m2] = Safety!None
        /\ op'.phase = "sent" => op'.model # m2
        /\ \A call \in lost' : call.model # m2

\* The one change is followed on s1, where the two services play the same part.
OnTheFirst ==
    changes = 0 /\ services[s1] = services[s2] =>
        /\ services'[s2] = services[s2]
        /\ \A c \in calls' : c.s = s2 => c.op = "load"

MCNext ==
    /\ UNCHANGED open
    /\ \/ open = "status" /\ StatusStep
       \/ open = "services" /\ ServicesStep /\ OnTheFirst
       \/ open = "routing" /\ RoutingStep
       \/ open = "safety" /\ SafetyStep /\ WithinBounds
       \/ open = "requests" /\ ListStep

\* Each part is scheduled as its own specification says, while it is open.
MCFairness ==
    /\ WF_statusVars(open = "status" /\ Status!Poll)
    /\ \A kind \in Status!Kind :
        /\ WF_statusVars(open = "status" /\ Status!Served(kind))
        /\ WF_statusVars(open = "status" /\ Status!Answered(kind))
    /\ WF_serviceVars(open = "services" /\ Services!ListServed)
    /\ WF_serviceVars(open = "services" /\ Services!ListEnds)
    /\ WF_routingVars(open = "routing" /\ Routing!BecomeReady)
    /\ WF_routingVars(open = "routing" /\ Routing!Autosave)
    /\ \A kind \in {"load", "save"} :
        /\ WF_routingVars(open = "routing" /\ Routing!Served(kind))
        /\ WF_routingVars(open = "routing" /\ Routing!Answered(kind))
    /\ WF_safetyVars(open = "safety" /\ Safety!Reading)
    /\ WF_safetyVars(open = "safety" /\ Safety!Operating)
    /\ WF_safetyVars(open = "safety" /\ Safety!Polling)
    /\ \A m \in Model : WF_safetyVars(open = "safety" /\ Safety!Ends(m))
    /\ WF_listVars(open = "requests" /\ ReadServed)
    /\ WF_listVars(open = "requests" /\ ReadAnswered)
MCSpec == MCInit /\ [][MCNext]_<<open, desktopVars>> /\ MCFairness

\* Each page comes to show what Core has, none goes on loading for ever, and what
\* was changed is saved.
WindowCatchesUp ==
    /\ <>[](open = "status" => Status!Current)
    /\ Safety!RowsCatchUp
    /\ <>[](open = "requests" => Shown)
    /\ Services!LoadingEnds /\ Routing!ChangesAreSaved
=============================================================================
