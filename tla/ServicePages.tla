---------------------------- MODULE ServicePages ----------------------------
(***************************************************************************)
(* The main window over the list of services: its pages and the guard in   *)
(* front of unsaved edits, the catalog of services with its visible and    *)
(* silent refreshes, and the calls to Core the service pages make          *)
(* (apps/desktop/src/App.tsx, ServiceManager.tsx, LocalImportDialog.tsx).  *)
(*                                                                         *)
(* A call is asked, served by Core, and answered, each at its own moment;  *)
(* it may fail before or after Core has carried it out, and answers come   *)
(* in any order.  The generation counters of the code tell an answer that  *)
(* has been superseded: here a superseded read is taken out of calls, for  *)
(* its answer is ignored whenever it comes.                                *)
(***************************************************************************)
EXTENDS Naturals, FiniteSets

CONSTANTS
    Service,      \* the services there may be
    MaxChanges,   \* changes asked for, here or in another client
    MaxEvents     \* refreshes by the user, the timers and the overview, and stops of Core

None == "none"
Places == {"overview", "list", "create"}
Page == Places \cup Service           \* a service stands for its editor
Editing(p) == p \notin {"overview", "list"}
Mounted(p) == p # "overview"          \* ServiceManager is on screen

\* What the instances and the proofs assume of the constants.
PagesAssumption ==
    /\ MaxChanges \in Nat /\ MaxEvents \in Nat
    /\ Service \cap (Places \cup {None}) = {}

VARIABLES
    page, pending,   \* the page shown, the page waiting for a confirmation
    editor,          \* the draft: of which record and version, edited or not
    dirty,           \* editorDirtyRef, which the host is told of
    saving, acting,  \* saving and actionID of the mounted ServiceManager
    catalog,         \* its status, and the record last shown of each service
    shown,           \* the status as last rendered (catalogRef)
    ready,           \* Core is ready
    stored,          \* Core's record of each service
    acked,           \* history: the newest change the window was told of
    calls,           \* the calls in flight whose answers still matter
    changes, refreshes, downs

window == <<page, pending, editor, dirty>>
busy == <<saving, acting>>
counts == <<changes, refreshes, downs>>
vars == <<window, busy, catalog, shown, ready, stored, acked, calls, counts>>

\* A record of a service: its version, and whether it exists at that version.
Unknown == [at |-> 0, live |-> FALSE]
Nothing == [s \in Service |-> Unknown]
NoEditor == [of |-> None, at |-> 0, typed |-> FALSE]

Conditional == {"toggleWrite", "deleteWrite", "save"}     \* with If-Match
Imports == {"import", "provider"}    \* of a local tool, of a provider's link
Creating == {"create"} \cup Imports
Saves == {"save", "create"}          \* of the editor's draft
Write == Conditional \cup Creating \cup {"change"}

\* at: the version a conditional change is based on.  own: the ServiceManager
\* that asked is still mounted.  seen: the records Core answered from.
Call(op, s, at) ==
    [op |-> op, s |-> s, at |-> at, silent |-> FALSE, own |-> TRUE,
     phase |-> "asked", seen |-> Nothing]
List(silent) == [Call("list", None, 0) EXCEPT !.silent = silent, !.own = FALSE]

WithoutLists(cs) == {c \in cs : c.op # "list"}
WithoutLoads(cs) == {c \in cs : c.op # "load"}
Disowned(cs) == {[c EXCEPT !.own = FALSE] : c \in cs}
Importing == \E c \in calls : c.op \in Imports     \* its dialog is open

Init ==
    /\ page = "overview" /\ pending = None /\ editor = NoEditor /\ dirty = FALSE
    /\ saving = FALSE /\ acting = None
    /\ catalog = [status |-> "blocked", item |-> Nothing]
    /\ shown = "blocked"
    /\ ready = FALSE
    /\ stored \in [Service -> {Unknown, [at |-> 1, live |-> TRUE]}]
    /\ acked = [s \in Service |-> 0]
    /\ calls = {}
    /\ changes = 0 /\ refreshes = 0 /\ downs = 0

-----------------------------------------------------------------------------
(* The catalog.                                                            *)

Render ==
    /\ shown # catalog.status
    /\ shown' = catalog.status
    /\ UNCHANGED <<window, busy, catalog, ready, stored, acked, calls, counts>>

\* A visible refresh supersedes the reads before it.
Refreshed(cs) == WithoutLists(cs) \cup {List(FALSE)}
Loading(cat) == [cat EXCEPT !.status = "loading"]

\* A page, a button or the poll of the list asks for a visible refresh.
Refresh ==
    /\ ready /\ refreshes + downs < MaxEvents
    /\ catalog' = Loading(catalog)
    /\ calls' = Refreshed(calls)
    /\ refreshes' = refreshes + 1
    /\ UNCHANGED <<window, busy, shown, ready, stored, acked, changes, downs>>

\* The overview revalidates, only over settled data as it was rendered.
RefreshSilently ==
    /\ ready /\ page = "overview" /\ refreshes + downs < MaxEvents
    /\ shown \in {"ready", "error"}
    /\ calls' = WithoutLists(calls) \cup {List(TRUE)}
    /\ refreshes' = refreshes + 1
    /\ UNCHANGED <<window, busy, catalog, shown, ready, stored, acked, changes, downs>>

\* Mutant of Listed: a failed silent read always keeps what is shown.
ListedKept(c) ==
    IF c.phase = "served" THEN [status |-> "ready", item |-> c.seen]
    ELSE IF c.silent THEN catalog ELSE [catalog EXCEPT !.status = "error"]
\* The catalog after the answer to a list: a failed silent read keeps what is
\* shown, unless a visible load was superseded by it and is left waiting.
Listed(c) ==
    IF c.phase = "served" THEN [status |-> "ready", item |-> c.seen]
    ELSE IF c.silent /\ catalog.status # "loading" THEN catalog
    ELSE [catalog EXCEPT !.status = "error"]

ListAnswered(c) ==
    /\ c.op = "list"
    /\ catalog' = Listed(c)
    /\ calls' = calls \ {c}
    /\ UNCHANGED <<window, busy, shown, ready, stored, acked, counts>>

\* The window takes over a change it is told of; reads that started before
\* it are superseded.
Remembered(c) ==
    [status |-> "ready", item |-> [catalog.item EXCEPT ![c.s] = c.seen[c.s]]]
Acknowledged(c) ==
    [acked EXCEPT ![c.s] = IF c.seen[c.s].at > @ THEN c.seen[c.s].at ELSE @]
\* Mutant of Superseded: a change leaves the reads in flight alone.
SupersededNot(cs) == cs
Superseded(cs) == WithoutLists(cs)

CoreDown ==
    /\ ready /\ refreshes + downs < MaxEvents
    /\ ready' = FALSE /\ downs' = downs + 1
    /\ catalog' = [catalog EXCEPT !.status = "blocked"]
    /\ calls' = WithoutLists(calls)
    /\ UNCHANGED <<window, busy, shown, stored, acked, changes, refreshes>>

CoreUp ==
    /\ ~ready
    /\ ready' = TRUE
    /\ catalog' = Loading(catalog)
    /\ calls' = Refreshed(calls)
    /\ UNCHANGED <<window, busy, shown, stored, acked, counts>>

-----------------------------------------------------------------------------
(* Pages and the guard in front of unsaved edits.                          *)

\* Mutant of Opened: the answer of a load is not tied to the page it is for.
OpenedUnchecked(p, cs) ==
    LET kept == IF Mounted(p) THEN cs ELSE Disowned(cs)
    IN IF p \in Service THEN kept \cup {Call("load", p, 0)} ELSE kept
\* Opening p starts its editor anew: answers for an earlier one no longer
\* count, nor do those to a ServiceManager that goes.
Opened(p, cs) ==
    LET kept == WithoutLoads(IF Mounted(p) THEN cs ELSE Disowned(cs))
    IN IF p \in Service THEN kept \cup {Call("load", p, 0)} ELSE kept

Blank(p) == IF p = "create" THEN [NoEditor EXCEPT !.of = "create"] ELSE NoEditor

\* setPage(p), the calls in flight otherwise being cs.
Show(p, cs) ==
    /\ page' = p
    /\ editor' = IF p = page THEN editor ELSE Blank(p)
    /\ calls' = IF p = page THEN cs ELSE Opened(p, cs)

Leaves(p) == Editing(page) /\ p # page
Reachable(p) ==
    Editing(p) => /\ page \in {"overview", "list"} /\ ~Importing
                  /\ p \in Service => catalog.item[p].live
\* The state of a ServiceManager is gone with it.
KeepsBusy(p) ==
    IF Mounted(p) THEN UNCHANGED busy ELSE saving' = FALSE /\ acting' = None

\* navigate: edits that would be lost make the page wait for a confirmation.
GoTo(p, cs) ==
    IF Leaves(p) /\ dirty
    THEN /\ pending' = p /\ calls' = cs
         /\ UNCHANGED <<page, editor, dirty, busy>>
    ELSE /\ Show(p, cs) /\ KeepsBusy(p)
         /\ pending' = None
         /\ dirty' = (dirty /\ ~Leaves(p))

\* The sidebar, the tray, a notice, or a page opens p.
Navigate(p) ==
    /\ p # page \/ pending # None
    /\ Reachable(p)
    /\ GoTo(p, calls)
    /\ UNCHANGED <<catalog, shown, ready, stored, acked, counts>>

ConfirmLeave ==
    /\ pending # None
    /\ Show(pending, calls) /\ KeepsBusy(pending)
    /\ pending' = None /\ dirty' = FALSE
    /\ UNCHANGED <<catalog, shown, ready, stored, acked, counts>>

KeepEditing ==
    /\ pending # None
    /\ pending' = None
    /\ UNCHANGED <<page, editor, dirty, busy, catalog, shown, ready, stored, acked,
                   calls, counts>>

\* The user edits the draft, or takes every edit back.
Type ==
    /\ editor.of # None /\ ready /\ ~saving /\ pending = None /\ ~Importing
    /\ editor' = [editor EXCEPT !.typed = ~@]
    /\ dirty' = editor'.typed
    /\ UNCHANGED <<page, pending, busy, catalog, shown, ready, stored, acked, calls, counts>>

LoadAnswered(c) ==
    /\ c.op = "load"
    /\ IF c.phase = "served"
       THEN /\ editor' = [of |-> c.s, at |-> c.seen[c.s].at, typed |-> FALSE]
            /\ dirty' = FALSE
       ELSE UNCHANGED <<editor, dirty>>
    /\ calls' = calls \ {c}
    /\ UNCHANGED <<page, pending, busy, catalog, shown, ready, stored, acked, counts>>

-----------------------------------------------------------------------------
(* Changes the user asks for.                                              *)

\* A service that has never existed and that no call is creating.
Unused(s) == stored[s] = Unknown /\ \A c \in calls : c.s = s => c.op \notin Creating
Asks == ready /\ changes < MaxChanges /\ pending = None /\ ~Importing

Ask(c) ==
    /\ calls' = calls \cup {c}
    /\ changes' = changes + 1
    /\ UNCHANGED <<window, catalog, shown, ready, stored, acked, refreshes, downs>>

Save ==
    /\ Asks /\ ~saving /\ editor.of # None
    /\ saving' = TRUE /\ UNCHANGED acting
    /\ \/ /\ editor.of = "create"
          /\ \E s \in Service : Unused(s) /\ Ask(Call("create", s, 0))
       \/ /\ editor.of \in Service
          /\ Ask(Call("save", editor.of, editor.at))

\* From the list: switching a service on or off, deleting it, signing out or
\* clearing its risk.
ActOn(s, op) ==
    /\ Asks /\ page = "list"
    /\ catalog.item[s].live /\ acting # s
    /\ acting' = s /\ UNCHANGED saving
    /\ Ask(Call(op, s, 0))

Import(s, op) ==
    /\ Asks /\ Unused(s)
    /\ UNCHANGED busy
    /\ Ask([Call(op, s, 0) EXCEPT !.own = FALSE])

\* toggleEnabled and confirmDestructiveAction read the record first.
WriteAfter(c) ==
    [c EXCEPT !.op = IF @ = "toggleRead" THEN "toggleWrite" ELSE "deleteWrite",
              !.at = c.seen[c.s].at, !.phase = "asked", !.seen = Nothing]
Frees(c) == IF c.own THEN acting' = None ELSE UNCHANGED acting

ReadAnswered(c) ==
    /\ c.op \in {"toggleRead", "deleteRead"}
    /\ IF c.phase = "served"
       THEN calls' = (calls \ {c}) \cup {WriteAfter(c)} /\ UNCHANGED acting
       ELSE calls' = calls \ {c} /\ Frees(c)
    /\ UNCHANGED <<window, saving, catalog, shown, ready, stored, acked, counts>>

\* A change that failed leaves its message; nothing is read again.  A save
\* clears the key that was typed, which may be all that was edited.
ChangeFailed(c) ==
    /\ c.op \in Write /\ c.phase = "failed"
    /\ calls' = calls \ {c}
    /\ IF c.op \in Saves
       THEN /\ saving' = (saving /\ ~c.own) /\ UNCHANGED acting
            /\ \/ UNCHANGED editor
               \/ c.own /\ editor' = [editor EXCEPT !.typed = FALSE]
       ELSE Frees(c) /\ UNCHANGED <<saving, editor>>
    /\ dirty' = editor'.typed
    /\ UNCHANGED <<page, pending, catalog, shown, ready, stored, acked, counts>>

\* The changes whose answer goes to handleServiceSaved.
ShowsList == Saves \cup {"toggleWrite", "change"}

\* handleServiceSaved shows the list, whatever page the user is on by then,
\* and the catalog is read again.  A save also takes back a page that waits.
Saved(c) ==
    /\ c.op \in ShowsList /\ c.phase = "served"
    /\ catalog' = Loading(Remembered(c)) /\ acked' = Acknowledged(c)
    /\ Show("list", Refreshed(Superseded(calls \ {c})))
    /\ dirty' = FALSE
    /\ IF c.op \in Saves
       THEN /\ pending' = None
            /\ saving' = (saving /\ ~c.own) /\ UNCHANGED acting
       ELSE UNCHANGED <<pending, saving>> /\ Frees(c)
    /\ UNCHANGED <<shown, ready, stored, counts>>

\* handleServiceRemoved: the page stays.
Removed(c) ==
    /\ c.op = "deleteWrite" /\ c.phase = "served"
    /\ catalog' = Loading(Remembered(c)) /\ acked' = Acknowledged(c)
    /\ calls' = Refreshed(Superseded(calls \ {c}))
    /\ Frees(c)
    /\ UNCHANGED <<window, saving, shown, ready, stored, counts>>

\* An import hands its service to the catalog, which is not read again.
Imported(c) ==
    /\ c.op = "import" /\ c.phase = "served"
    /\ catalog' = Remembered(c) /\ acked' = Acknowledged(c)
    /\ calls' = Superseded(calls \ {c})
    /\ UNCHANGED <<window, busy, shown, ready, stored, counts>>

\* Mutant of ProviderAdded: the page is shown without asking for the edits.
ProviderAddedUnasked(c) ==
    /\ c.op = "provider" /\ c.phase = "served"
    /\ catalog' = Remembered(c) /\ acked' = Acknowledged(c)
    /\ \E p \in {"list", c.s} : Show(p, Superseded(calls \ {c})) /\ KeepsBusy(p)
    /\ pending' = None /\ dirty' = editor'.typed
    /\ UNCHANGED <<shown, ready, stored, counts>>
\* A provider's link shows the list, or the editor of a service without models.
ProviderAdded(c) ==
    /\ c.op = "provider" /\ c.phase = "served"
    /\ catalog' = Remembered(c) /\ acked' = Acknowledged(c)
    /\ \E p \in {"list", c.s} : GoTo(p, Superseded(calls \ {c}))
    /\ UNCHANGED <<shown, ready, stored, counts>>

-----------------------------------------------------------------------------
(* Core, and the way to it.                                                *)

\* What Core turns down: a change of a version it no longer has.
Refuses(c) ==
    CASE c.op = "list" -> FALSE
      [] c.op \in Conditional -> ~stored[c.s].live \/ stored[c.s].at # c.at
      [] c.op \in Creating -> stored[c.s] # Unknown
      [] OTHER -> ~stored[c.s].live

Shows(c) == IF c.op = "list" THEN stored ELSE [Nothing EXCEPT ![c.s] = stored[c.s]]
Serve(c) ==
    /\ ready /\ c.phase = "asked"
    /\ IF Refuses(c)
       THEN /\ calls' = (calls \ {c}) \cup {[c EXCEPT !.phase = "failed"]}
            /\ UNCHANGED stored
       ELSE /\ stored' = IF c.op \in Write
                         THEN [stored EXCEPT ![c.s] = [at |-> @.at + 1,
                                                       live |-> c.op # "deleteWrite"]]
                         ELSE stored
            /\ calls' = (calls \ {c}) \cup {[c EXCEPT !.phase = "served", !.seen = Shows(c)']}
    /\ UNCHANGED <<window, busy, catalog, shown, ready, acked, counts>>

\* The request or its answer is lost.
Fail(c) ==
    /\ c.phase # "failed"
    /\ calls' = (calls \ {c}) \cup {[c EXCEPT !.phase = "failed", !.seen = Nothing]}
    /\ UNCHANGED <<window, busy, catalog, shown, ready, stored, acked, counts>>

\* Another client of the same Core changes a service.
ChangedElsewhere(s) ==
    /\ ready /\ changes < MaxChanges /\ stored[s].live
    /\ \E live \in BOOLEAN : stored' = [stored EXCEPT ![s] = [at |-> @.at + 1, live |-> live]]
    /\ changes' = changes + 1
    /\ UNCHANGED <<window, busy, catalog, shown, ready, acked, calls, refreshes, downs>>

Answer(c) ==
    /\ c.phase # "asked"
    /\ \/ ListAnswered(c) \/ LoadAnswered(c) \/ ReadAnswered(c) \/ ChangeFailed(c)
       \/ Saved(c) \/ Removed(c) \/ Imported(c) \/ ProviderAdded(c)

Next ==
    \/ Render \/ Refresh \/ RefreshSilently \/ CoreDown \/ CoreUp
    \/ \E p \in Page : Navigate(p)
    \/ ConfirmLeave \/ KeepEditing \/ Type \/ Save
    \/ \E s \in Service :
          \/ \E op \in {"toggleRead", "deleteRead", "change"} : ActOn(s, op)
          \/ \E op \in Imports : Import(s, op)
          \/ ChangedElsewhere(s)
    \/ \E c \in calls : Serve(c) \/ Fail(c) \/ Answer(c)

Spec == Init /\ [][Next]_vars

\* Every call is answered in the end, if only by the time limit of the bridge.
ListServed == \E c \in calls : c.op = "list" /\ (Serve(c) \/ Fail(c))
ListEnds == \E c \in calls : c.op = "list" /\ Answer(c)
Fairness == WF_vars(ListServed) /\ WF_vars(ListEnds)
FairSpec == Spec /\ Fairness

-----------------------------------------------------------------------------
Listing == [Service -> [at : Nat, live : BOOLEAN]]
Status == {"blocked", "loading", "ready", "error"}
Calls ==
    [op : Write \cup {"list", "load", "toggleRead", "deleteRead"},
     s : Service \cup {None}, at : Nat, silent : BOOLEAN, own : BOOLEAN,
     phase : {"asked", "served", "failed"}, seen : Listing]

TypeOK ==
    /\ page \in Page /\ pending \in Page \cup {None}
    /\ editor \in [of : Service \cup {"create", None}, at : Nat, typed : BOOLEAN]
    /\ dirty \in BOOLEAN /\ saving \in BOOLEAN /\ acting \in Service \cup {None}
    /\ catalog \in [status : Status, item : Listing]
    /\ shown \in Status /\ ready \in BOOLEAN
    /\ stored \in Listing /\ acked \in [Service -> Nat]
    /\ calls \subseteq Calls
    /\ changes \in Nat /\ refreshes \in Nat /\ downs \in Nat

\* A list whose answer the window will still accept knows every change the
\* window has been told of: a refresh never takes an acknowledged change back
\* (rememberService and handleServiceRemoved supersede the reads in flight).
ReadsKnowAcknowledged ==
    \A c \in calls : c.op = "list" /\ c.phase = "served" =>
        \A s \in Service : c.seen[s].at >= acked[s]

\* The editor never holds the draft of a service other than the one whose page
\* is shown, however the loads of two pages overtake each other.
EditorMatchesPage == editor.of # None => editor.of = page

\* The host is told of unsaved edits exactly while the editor on screen has
\* some, so that a hidden window with edits is kept.
DirtyMeansUnsaved == dirty <=> editor.typed

\* What the window was told of is in Core, and so is what it will be told.
ToldIsStored ==
    /\ \A s \in Service : acked[s] <= stored[s].at
    /\ \A c \in calls : c.op # "list" =>
         /\ c.s \in Service
         /\ c.phase = "served" => c.seen[c.s].at <= stored[c.s].at

\* A load is for the page shown, and a page waits only for another.
WaitsForAnother ==
    /\ \A c \in calls : c.op = "load" => c.s = page
    /\ pending = page => ~Editing(page)
    /\ editor.of = None => ~editor.typed

\* One load is awaited at most, and before an editor shows: no load is answered
\* over a draft that may have been edited.
OneLoad ==
    /\ \A c \in calls : c.op = "load" => editor.of = None
    /\ \A c, d \in calls : c.op = "load" /\ d.op = "load" => c = d

\* The inductive invariant of the pages.
PagesInv ==
    /\ TypeOK /\ ToldIsStored /\ ReadsKnowAcknowledged
    /\ WaitsForAnother /\ EditorMatchesPage /\ DirtyMeansUnsaved

\* The ways edits go: the user confirms leaving the page; the user takes them
\* back; a save asked for here fails, which clears the key that was typed; or the
\* answer to a save, a switch, a sign-out or a cleared risk shows the list.
EditsGo ==
    \/ pending # None /\ page' = pending /\ calls' = Opened(page', calls)
    \/ editor' = [editor EXCEPT !.typed = FALSE] /\ UNCHANGED <<page, calls>>
    \/ \E c \in calls : c.op \in Saves /\ c.own /\ c.phase = "failed"
         /\ editor' = [editor EXCEPT !.typed = FALSE]
         /\ calls' = calls \ {c} /\ UNCHANGED page
    \/ \E c \in calls \ calls' : c.op \in ShowsList /\ c.phase = "served" /\ page' = "list"
\* Edits go in no other way.  The answer to a load, a read, an import, a
\* provider's link or a deletion never takes them, whatever page it was for and
\* however late it comes (loadGeneration, navigate).
EditsNeedConfirmation == [][editor.typed /\ ~editor'.typed => EditsGo]_vars

\* A visible load ends: whatever supersedes it leaves the catalog with an
\* answer, an error, or blocked.
LoadingEnds == []<>(catalog.status # "loading")
=============================================================================
