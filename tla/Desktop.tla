------------------------------- MODULE Desktop -------------------------------
(***************************************************************************)
(* The parts of the main window, side by side: Core's status, the service  *)
(* pages, the routing page, the models on the safety page and the list of  *)
(* conversations (apps/desktop/src/App.tsx mounts them).  They share       *)
(* nothing but Core, which each asks for things of its own, and their      *)
(* steps interleave.                                                       *)
(***************************************************************************)
EXTENDS RequestList, Sequences

CONSTANTS
    \* CoreStatus
    MaxEpoch, MaxStatusFailures, MaxActions,
    \* ServicePages
    Service, MaxChanges, MaxRefreshes,
    \* RoutingAutosave
    Keys, Low, High, Redirects, Values, Incomplete, MaxEdits, MaxFailures, MaxDowns,
    \* ModelLibrary
    Model, MaxOps, MaxFaults, MaxVisits, Early

VARIABLES
    \* CoreStatus
    health, snapshot, failed, exclusive, polling, statusCalls, restarting, beside,
    failures, actions,
    \* ServicePages
    page, pending, editor, dirty, saving, acting, catalog, shown, ready, services,
    acked, calls, changes, refreshes, downs,
    \* RoutingAutosave
    settings, draft, baseline, loaded, routingReady, routingSaving, loadError, error,
    typing, routingCalls, rebased, edits, routingFailures, routingDowns,
    \* ModelLibrary
    models, rows, load, op, lost, poll, left, unheard, ops, faults, visits

Status == INSTANCE CoreStatus WITH
    MaxFailures <- MaxStatusFailures, core <- health, calls <- statusCalls

Services == INSTANCE ServicePages WITH
    MaxEvents <- MaxRefreshes, stored <- services

Routing == INSTANCE RoutingAutosave WITH
    stored <- settings, ready <- routingReady, saving <- routingSaving,
    calls <- routingCalls, failures <- routingFailures, downs <- routingDowns

Safety == INSTANCE ModelLibrary WITH core <- models

ASSUME DesktopAssumption ==
    /\ Status!StatusAssumption /\ Services!PagesAssumption
    /\ Routing!AutosaveAssumption /\ Safety!LibraryAssumption
    /\ ListAssumption

statusVars ==
    <<health, snapshot, failed, exclusive, polling, statusCalls, restarting, beside,
      failures, actions>>
serviceVars ==
    <<page, pending, editor, dirty, saving, acting, catalog, shown, ready, services,
      acked, calls, changes, refreshes, downs>>
routingVars ==
    <<settings, draft, baseline, loaded, routingReady, routingSaving, loadError, error,
      typing, routingCalls, rebased, edits, routingFailures, routingDowns>>
safetyVars == <<models, rows, load, op, lost, poll, left, unheard, ops, faults, visits>>
listVars == vars
desktopVars == <<statusVars, serviceVars, routingVars, safetyVars, listVars>>

DesktopInit == Status!Init /\ Services!Init /\ Routing!Init /\ Safety!Init /\ Init

\* One part takes a step of its own.
StatusStep ==
    Status!Next /\ UNCHANGED <<serviceVars, routingVars, safetyVars, listVars>>
ServicesStep ==
    Services!Next /\ UNCHANGED <<statusVars, routingVars, safetyVars, listVars>>
RoutingStep ==
    Routing!Next /\ UNCHANGED <<statusVars, serviceVars, safetyVars, listVars>>
SafetyStep ==
    Safety!Next /\ UNCHANGED <<statusVars, serviceVars, routingVars, listVars>>
ListStep ==
    Next /\ UNCHANGED <<statusVars, serviceVars, routingVars, safetyVars>>
DesktopNext == StatusStep \/ ServicesStep \/ RoutingStep \/ SafetyStep \/ ListStep

DesktopSpec == DesktopInit /\ [][DesktopNext]_desktopVars

-----------------------------------------------------------------------------
\* The properties of the parts, each of which is stated in its module, as is
\* ListHasNoGap.
\* What each part keeps, whatever the order of the calls and their answers.
DesktopInv ==
    /\ Status!StatusInv /\ Services!PagesInv /\ Services!OneLoad
    /\ Routing!AutosaveInv /\ Safety!LibraryInv
    /\ RequestListInv
\* No list of services the window will accept is older than what it was told.
ReadsKnowAcknowledged == Services!ReadsKnowAcknowledged
\* Core's status as shown does not go back.
SnapshotNeverGoesBack == Status!SnapshotNeverGoesBack
\* Neither page takes back what the user has typed.
EditsAreKept == Routing!EditsAreKept /\ Services!EditsNeedConfirmation
\* The models as shown do not go back.
RowsNeverGoBack == Safety!RowsNeverGoBack
=============================================================================
