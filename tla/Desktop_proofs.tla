--------------------------- MODULE Desktop_proofs ---------------------------
(***************************************************************************)
(* Proofs about the parts of the main window side by side, for any values  *)
(* of the constants.  A part keeps its invariant under its own steps and   *)
(* while it rests, and so under every step of the window; what is proved   *)
(* of the list of conversations comes from RequestList_proofs.             *)
(*                                                                         *)
(* Status: the gate lets one request through at a time (OneIsCurrent);     *)
(* once its answer is shown, or a newer request has begun, nothing older   *)
(* passes the gate (AnswersInOrder).                                       *)
(*                                                                         *)
(* Services: the invariant is split into what each call in flight must be  *)
(* (CallInv), what is known of the records (Known) and what holds of the   *)
(* editor and the guard in front of it (GuardInv); a step that changes the *)
(* set of calls is reduced to the calls it adds.                           *)
(*                                                                         *)
(* Routing: whatever number of passes a plan takes, its document is valid, *)
(* by a minimal counterexample (PlanIsValid).  What an autosave sent is    *)
(* the draft's changes on top of the baseline, until a reading replaces    *)
(* that (AutosaveOK), so the answer puts back no edit it did not carry.    *)
(*                                                                         *)
(* Safety: nothing on its way to the page is newer than Core (Older), and  *)
(* what arrives is no older than the row it replaces: the operator acts on *)
(* a list that has been read (OpOK), and a poll is told of a model after   *)
(* the row was, and not before the list that is read meanwhile, as far as  *)
(* the row goes on downloading (ToldOK).                                   *)
(***************************************************************************)
EXTENDS Desktop, RequestList_proofs

-----------------------------------------------------------------------------
\* Core's status.
LEMMA InitStatusInv == Status!Init => Status!StatusInv
<1> SUFFICES ASSUME Status!Init PROVE Status!StatusInv
  OBVIOUS
<1>1. Status!TypeOK /\ Status!OneIsCurrent
  BY DEF Status!Init, Status!TypeOK, Status!OneIsCurrent, Status!Gated
<1>2. Status!RestartHoldsGate
  BY DEF Status!Init, Status!RestartHoldsGate
<1>3. Status!AnswersInOrder
  BY DEF Status!Init, Status!AnswersInOrder, Status!Gated
<1>4. QED
  BY <1>1, <1>2, <1>3 DEF Status!StatusInv

LEMMA StatusCoreMovesKeepsInv == Status!StatusInv /\ Status!CoreMoves => Status!StatusInv'
BY DEF Status!CoreMoves, Status!StatusInv, Status!TypeOK, Status!OneIsCurrent, Status!Gated,
       Status!RestartHoldsGate, Status!AnswersInOrder

\* What Begun leaves: the new call, and older ones the gate ignores.
LEMMA BegunCalls ==
    ASSUME NEW kind \in {"poll", "restart"},
           statusCalls \subseteq [kind : Status!Kind, current : BOOLEAN, seen : Nat, done : BOOLEAN],
           statusCalls' = Status!Begun(statusCalls, kind)
    PROVE  /\ statusCalls' \subseteq [kind : Status!Kind, current : BOOLEAN, seen : Nat, done : BOOLEAN]
           /\ Status!Call(kind) \in statusCalls'
           /\ Status!Call(kind).kind = kind /\ Status!Call(kind).current
           /\ ~Status!Call(kind).done
           /\ Status!Call(kind).seen = 0
           /\ \A c \in statusCalls' :
                \/ c = Status!Call(kind)
                \/ ~c.current /\ \E d \in statusCalls : c = [d EXCEPT !.current = FALSE]
<1> DEFINE Calls == [kind : Status!Kind, current : BOOLEAN, seen : Nat, done : BOOLEAN]
<1>1. /\ Status!Call(kind) \in Calls
      /\ Status!Call(kind).kind = kind /\ Status!Call(kind).current /\ ~Status!Call(kind).done
      /\ Status!Call(kind).seen = 0
  BY DEF Status!Call, Status!Kind
<1>2. \A d \in statusCalls :
        [d EXCEPT !.current = FALSE] \in Calls /\ ~[d EXCEPT !.current = FALSE].current
  OBVIOUS
<1>3. \A c \in statusCalls' : c = Status!Call(kind) \/ \E d \in statusCalls : c = [d EXCEPT !.current = FALSE]
  BY DEF Status!Begun, Status!Outdated
<1>4. Status!Call(kind) \in statusCalls'
  BY DEF Status!Begun
<1>5. QED
  BY <1>1, <1>2, <1>3, <1>4

LEMMA StatusPollKeepsInv == Status!StatusInv /\ Status!Poll => Status!StatusInv'
<1> SUFFICES ASSUME Status!StatusInv, Status!Poll PROVE Status!StatusInv'
  OBVIOUS
<1>1. CASE exclusive
  BY <1>1
     DEF Status!Poll, Status!StatusInv, Status!TypeOK, Status!OneIsCurrent, Status!Gated,
         Status!RestartHoldsGate, Status!AnswersInOrder
<1>2. CASE ~exclusive
  <2>1. statusCalls' = Status!Begun(statusCalls, "poll") /\ polling' = "asked"
    BY <1>2 DEF Status!Poll
  <2>2. /\ statusCalls' \subseteq [kind : Status!Kind, current : BOOLEAN, seen : Nat, done : BOOLEAN]
        /\ Status!Call("poll").kind = "poll" /\ ~Status!Call("poll").done
        /\ Status!Call("poll").seen = 0
        /\ \A c \in statusCalls' :
             \/ c = Status!Call("poll")
             \/ ~c.current /\ \E d \in statusCalls : c = [d EXCEPT !.current = FALSE]
    BY <2>1, BegunCalls DEF Status!StatusInv, Status!TypeOK
  <2>3. Status!TypeOK'
    BY <2>1, <2>2 DEF Status!Poll, Status!StatusInv, Status!TypeOK
  <2>4. Status!OneIsCurrent' /\ Status!RestartHoldsGate'
    BY <1>2, <2>2
       DEF Status!Poll, Status!StatusInv, Status!OneIsCurrent, Status!Gated,
           Status!RestartHoldsGate
  <2>5. \A c \in statusCalls' : c.seen <= health /\ (~c.done => c.seen = 0)
    BY <2>2 DEF Status!StatusInv, Status!TypeOK, Status!AnswersInOrder
  <2>6. Status!AnswersInOrder'
    BY <2>2, <2>5
       DEF Status!Poll, Status!StatusInv, Status!TypeOK, Status!AnswersInOrder, Status!Gated
  <2>7. QED
    BY <2>3, <2>4, <2>6 DEF Status!StatusInv
<1>3. QED
  BY <1>1, <1>2

LEMMA StatusRestartKeepsInv == Status!StatusInv /\ Status!Restart => Status!StatusInv'
<1> SUFFICES ASSUME Status!StatusInv, Status!Restart PROVE Status!StatusInv'
  OBVIOUS
<1>1. /\ statusCalls' \subseteq [kind : Status!Kind, current : BOOLEAN, seen : Nat, done : BOOLEAN]
      /\ Status!Call("restart") \in statusCalls'
      /\ Status!Call("restart").kind = "restart" /\ Status!Call("restart").current
      /\ ~Status!Call("restart").done /\ Status!Call("restart").seen = 0
      /\ \A c \in statusCalls' :
           \/ c = Status!Call("restart")
           \/ ~c.current /\ \E d \in statusCalls : c = [d EXCEPT !.current = FALSE]
  BY BegunCalls DEF Status!Restart, Status!StatusInv, Status!TypeOK
<1>2. Status!TypeOK'
  BY <1>1 DEF Status!Restart, Status!StatusInv, Status!TypeOK
<1>3. Status!OneIsCurrent' /\ Status!RestartHoldsGate'
  BY <1>1 DEF Status!Restart, Status!OneIsCurrent, Status!Gated, Status!RestartHoldsGate
<1>4. \A c \in statusCalls' : c.seen <= health /\ (~c.done => c.seen = 0)
  BY <1>1 DEF Status!StatusInv, Status!TypeOK, Status!AnswersInOrder
<1>5. Status!AnswersInOrder'
  BY <1>1, <1>4
     DEF Status!Restart, Status!StatusInv, Status!TypeOK, Status!AnswersInOrder,
         Status!Gated
<1>6. QED
  BY <1>2, <1>3, <1>5 DEF Status!StatusInv

LEMMA StatusFromSettingsKeepsInv ==
    ASSUME Status!StatusInv, NEW kind \in {"action", "pending"}, Status!FromSettings(kind)
    PROVE  Status!StatusInv'
<1>1. /\ statusCalls' = statusCalls \cup {Status!Call(kind)}
      /\ Status!Call(kind) \in [kind : Status!Kind, current : BOOLEAN, seen : Nat, done : BOOLEAN]
      /\ Status!Call(kind).kind = kind /\ Status!Call(kind).seen = 0
  BY DEF Status!FromSettings, Status!Call, Status!Kind
<1>2. Status!TypeOK'
  BY <1>1 DEF Status!FromSettings, Status!StatusInv, Status!TypeOK
<1>3. Status!OneIsCurrent' /\ Status!RestartHoldsGate'
  BY <1>1
     DEF Status!FromSettings, Status!StatusInv, Status!OneIsCurrent, Status!Gated,
         Status!RestartHoldsGate
<1>4. Status!AnswersInOrder'
  BY <1>1
     DEF Status!FromSettings, Status!StatusInv, Status!TypeOK, Status!AnswersInOrder,
         Status!Gated
<1>5. QED
  BY <1>2, <1>3, <1>4 DEF Status!StatusInv

\* A call that is carried out, or fails, stays the call it was.
LEMMA EndedKeepsGate ==
    ASSUME Status!StatusInv, NEW c \in statusCalls, NEW e,
           e \in [kind : Status!Kind, current : BOOLEAN, seen : Nat, done : BOOLEAN],
           e.kind = c.kind, e.current = c.current,
           statusCalls' = (statusCalls \ {c}) \cup {e},
           UNCHANGED <<exclusive, restarting>>
    PROVE  Status!OneIsCurrent' /\ Status!RestartHoldsGate'
BY DEF Status!StatusInv, Status!TypeOK, Status!OneIsCurrent, Status!Gated, Status!RestartHoldsGate

LEMMA StatusServeKeepsInv ==
    ASSUME Status!StatusInv, NEW c \in statusCalls, Status!Serve(c)
    PROVE  Status!StatusInv'
<1> DEFINE e == [c EXCEPT !.done = TRUE, !.seen = health']
<1>1. health' \in Nat /\ health <= health'
  BY DEF Status!Serve, Status!StatusInv, Status!TypeOK
<1>2. /\ e \in [kind : Status!Kind, current : BOOLEAN, seen : Nat, done : BOOLEAN]
      /\ e.kind = c.kind /\ e.current = c.current /\ e.seen = health' /\ e.done
      /\ statusCalls' = (statusCalls \ {c}) \cup {e}
  BY <1>1 DEF Status!Serve, Status!StatusInv, Status!TypeOK
<1> HIDE DEF e
<1>3. Status!TypeOK'
  BY <1>1, <1>2 DEF Status!Serve, Status!StatusInv, Status!TypeOK
<1>4. Status!OneIsCurrent' /\ Status!RestartHoldsGate'
  BY <1>2, EndedKeepsGate DEF Status!Serve
<1>5. Status!AnswersInOrder'
  BY <1>1, <1>2
     DEF Status!Serve, Status!StatusInv, Status!TypeOK, Status!AnswersInOrder, Status!Gated
<1>6. QED
  BY <1>3, <1>4, <1>5 DEF Status!StatusInv

LEMMA StatusFailKeepsInv ==
    ASSUME Status!StatusInv, NEW c \in statusCalls, Status!Fail(c)
    PROVE  Status!StatusInv'
<1> DEFINE e == [c EXCEPT !.done = TRUE, !.seen = 0]
<1>1. /\ e \in [kind : Status!Kind, current : BOOLEAN, seen : Nat, done : BOOLEAN]
      /\ e.kind = c.kind /\ e.current = c.current /\ e.seen = 0 /\ e.done
      /\ statusCalls' = (statusCalls \ {c}) \cup {e}
  BY DEF Status!Fail, Status!StatusInv, Status!TypeOK
<1> HIDE DEF e
<1>2. Status!TypeOK'
  BY <1>1 DEF Status!Fail, Status!StatusInv, Status!TypeOK
<1>3. Status!OneIsCurrent' /\ Status!RestartHoldsGate'
  BY <1>1, EndedKeepsGate DEF Status!Fail
<1>4. Status!AnswersInOrder'
  BY <1>1 DEF Status!Fail, Status!StatusInv, Status!TypeOK, Status!AnswersInOrder, Status!Gated
<1>5. QED
  BY <1>2, <1>3, <1>4 DEF Status!StatusInv

LEMMA StatusAnswerKeepsInv ==
    ASSUME Status!StatusInv, NEW c \in statusCalls, Status!Answer(c)
    PROVE  Status!StatusInv'
<1>1. /\ statusCalls' = statusCalls \ {c} /\ health' = health
      /\ c.seen \in Nat /\ c.seen <= health /\ c.kind \in Status!Kind /\ c.current \in BOOLEAN
  BY DEF Status!Answer, Status!StatusInv, Status!TypeOK, Status!AnswersInOrder
<1>2. CASE Status!PollAnswered(c)
  <2>1. Status!TypeOK' /\ snapshot' <= health
    BY <1>1, <1>2
       DEF Status!Answer, Status!PollAnswered, Status!Shows, Status!StatusInv,
           Status!TypeOK, Status!AnswersInOrder
  <2>2. Status!OneIsCurrent' /\ Status!RestartHoldsGate'
    BY <1>1, <1>2
       DEF Status!PollAnswered, Status!StatusInv, Status!OneIsCurrent, Status!Gated,
           Status!RestartHoldsGate
  <2>3. Status!AnswersInOrder'
    BY <1>1, <1>2, <2>1
       DEF Status!PollAnswered, Status!Shows, Status!StatusInv, Status!OneIsCurrent,
           Status!AnswersInOrder, Status!Gated
  <2>4. QED
    BY <2>1, <2>2, <2>3 DEF Status!StatusInv
<1>3. CASE Status!RestartAnswered(c)
  <2>1. Status!TypeOK' /\ snapshot' <= health
    BY <1>1, <1>3
       DEF Status!Answer, Status!RestartAnswered, Status!EndsExclusive, Status!Shows,
           Status!StatusInv, Status!TypeOK, Status!AnswersInOrder
  <2>2. Status!OneIsCurrent' /\ Status!RestartHoldsGate'
    BY <1>1, <1>3
       DEF Status!RestartAnswered, Status!EndsExclusive, Status!StatusInv, Status!TypeOK,
           Status!OneIsCurrent, Status!Gated, Status!RestartHoldsGate
  <2>3. Status!AnswersInOrder'
    BY <1>1, <1>3, <2>1
       DEF Status!RestartAnswered, Status!Shows, Status!StatusInv, Status!OneIsCurrent,
           Status!AnswersInOrder, Status!Gated
  <2>4. QED
    BY <2>1, <2>2, <2>3 DEF Status!StatusInv
<1>4. CASE Status!SettingsAnswered(c)
  <2>1. Status!TypeOK' /\ snapshot' <= health
    BY <1>1, <1>4
       DEF Status!Answer, Status!SettingsAnswered, Status!Shows, Status!StatusInv,
           Status!TypeOK, Status!AnswersInOrder
  <2>2. Status!OneIsCurrent' /\ Status!RestartHoldsGate'
    BY <1>1, <1>4
       DEF Status!SettingsAnswered, Status!StatusInv, Status!OneIsCurrent, Status!Gated,
           Status!RestartHoldsGate
  <2>3. Status!AnswersInOrder'
    BY <1>1, <1>4, <2>1
       DEF Status!SettingsAnswered, Status!Shows, Status!StatusInv, Status!AnswersInOrder,
           Status!Gated
  <2>4. QED
    BY <2>1, <2>2, <2>3 DEF Status!StatusInv
<1>5. QED
  BY <1>2, <1>3, <1>4 DEF Status!Answer

LEMMA StatusStepKeepsInv == Status!StatusInv /\ [Status!Next]_(Status!vars) => Status!StatusInv'
<1> SUFFICES ASSUME Status!StatusInv, [Status!Next]_(Status!vars) PROVE Status!StatusInv'
  OBVIOUS
<1>1. CASE UNCHANGED Status!vars
  BY <1>1
     DEF Status!vars, Status!StatusInv, Status!TypeOK, Status!OneIsCurrent, Status!Gated,
         Status!RestartHoldsGate, Status!AnswersInOrder
<1>2. CASE Status!Next
  BY <1>2, StatusCoreMovesKeepsInv, StatusPollKeepsInv, StatusRestartKeepsInv,
     StatusFromSettingsKeepsInv, StatusServeKeepsInv, StatusFailKeepsInv,
     StatusAnswerKeepsInv DEF Status!Next
<1>3. QED
  BY <1>1, <1>2

\* An answer that passes the gate is no older than what is shown.
LEMMA StatusGrows == Status!StatusInv /\ [Status!Next]_(Status!vars) => [~beside' => snapshot' >= snapshot]_(Status!vars)
<1>1. ASSUME Status!StatusInv, Status!Next, ~beside'
      PROVE  snapshot' >= snapshot
  <2>1. CASE \E c \in statusCalls : Status!Answer(c)
    <3>1. PICK c \in statusCalls : Status!Answer(c)
      BY <2>1
    <3>2. ~beside /\ c.seen \in Nat /\ snapshot \in Nat
      BY <1>1, <3>1
         DEF Status!Answer, Status!PollAnswered, Status!RestartAnswered,
             Status!SettingsAnswered, Status!StatusInv, Status!TypeOK
    <3>3. QED
      BY <1>1, <3>1, <3>2
         DEF Status!Answer, Status!PollAnswered, Status!RestartAnswered,
             Status!SettingsAnswered, Status!Shows, Status!StatusInv, Status!TypeOK,
             Status!AnswersInOrder, Status!Gated
  <2>2. CASE snapshot' = snapshot
    BY <1>1, <2>2 DEF Status!StatusInv, Status!TypeOK
  <2>3. QED
    BY <1>1, <2>1, <2>2
       DEF Status!Next, Status!CoreMoves, Status!Poll, Status!Restart, Status!FromSettings,
           Status!Serve, Status!Fail
<1>2. QED
  BY <1>1

-----------------------------------------------------------------------------
\* The service pages.
Types ==
    /\ page \in Services!Page /\ pending \in Services!Page \cup {Services!None}
    /\ editor \in [of : Service \cup {"create", Services!None}, at : Nat, typed : BOOLEAN]
    /\ dirty \in BOOLEAN /\ saving \in BOOLEAN /\ acting \in Service \cup {Services!None}
    /\ catalog \in [status : Services!Status, item : Services!Listing]
    /\ shown \in Services!Status /\ ready \in BOOLEAN
    /\ services \in Services!Listing /\ acked \in [Service -> Nat]
    /\ changes \in Nat /\ refreshes \in Nat /\ downs \in Nat

Known == \A s \in Service : acked[s] <= services[s].at

GuardInv ==
    /\ pending = page => ~Services!Editing(page)
    /\ editor.of = Services!None => ~editor.typed
    /\ Services!EditorMatchesPage /\ Services!DirtyMeansUnsaved

CallInv(c) ==
    /\ c \in Services!Calls
    /\ c.op = "load" => c.s = page
    /\ c.op # "list" => c.s \in Service /\ (c.phase = "served" => c.seen[c.s].at <= services[c.s].at)
    /\ c.op = "list" /\ c.phase = "served" => \A s \in Service : c.seen[s].at >= acked[s]

LEMMA PagesParts ==
    Services!PagesInv <=> Types /\ Known /\ GuardInv /\ \A c \in calls : CallInv(c)
BY DEF Services!PagesInv, Services!TypeOK, Services!ToldIsStored,
       Services!ReadsKnowAcknowledged, Services!WaitsForAnother, Types, Known, GuardInv,
       CallInv

LEMMA PagesPartsNext ==
    Services!PagesInv' <=> Types' /\ Known' /\ GuardInv' /\ \A c \in calls' : CallInv(c)'
BY DEF Services!PagesInv, Services!TypeOK, Services!ToldIsStored,
       Services!ReadsKnowAcknowledged, Services!WaitsForAnother, Types, Known, GuardInv,
       CallInv, Services!EditorMatchesPage, Services!DirtyMeansUnsaved

LEMMA Unlike ==
    ASSUME Services!PagesAssumption
    PROVE  /\ Services!None \notin Services!Page /\ Services!None \notin Service
           /\ \A s \in Service : s \notin Services!Places /\ s # "create" /\ Services!Editing(s)
           /\ "list" \in Services!Page /\ "overview" \in Services!Page
           /\ "create" \in Services!Page
           /\ ~Services!Editing("list") /\ ~Services!Editing("overview")
BY DEF Services!PagesAssumption, Services!None, Services!Page, Services!Places, Services!Editing

ServiceOp == Services!Write \cup {"list", "load", "toggleRead", "deleteRead"}

LEMMA NothingIsListing == Services!Nothing \in Services!Listing /\ Services!Unknown \in [at : Nat, live : BOOLEAN]
BY DEF Services!Nothing, Services!Unknown, Services!Listing

LEMMA NewCall ==
    ASSUME NEW o \in ServiceOp, NEW s \in Service \cup {Services!None}, NEW at \in Nat
    PROVE  /\ Services!Call(o, s, at) \in Services!Calls /\ Services!Call(o, s, at).op = o
           /\ Services!Call(o, s, at).s = s
           /\ Services!Call(o, s, at).phase = "asked"
BY NothingIsListing DEF Services!Call, Services!Calls, ServiceOp

LEMMA NewList ==
    ASSUME NEW silent \in BOOLEAN
    PROVE  /\ Services!List(silent) \in Services!Calls /\ Services!List(silent).op = "list"
           /\ Services!List(silent).phase = "asked"
<1>1. /\ Services!Call("list", Services!None, 0) \in Services!Calls
      /\ Services!Call("list", Services!None, 0).op = "list"
      /\ Services!Call("list", Services!None, 0).phase = "asked"
  BY NewCall DEF ServiceOp
<1>2. QED
  BY <1>1 DEF Services!List, Services!Calls

\* A call in flight stays what it was while Core's records get newer.
LEMMA KeepsCall ==
    ASSUME Types, Types', NEW c, CallInv(c), page' = page \/ c.op # "load",
           \A s \in Service : services[s].at <= services'[s].at,
           UNCHANGED acked \/ c.op # "list"
    PROVE  CallInv(c)'
<1>1. \A s \in Service : services[s].at \in Nat /\ services'[s].at \in Nat
  BY DEF Types, Services!Listing
<1>2. \A s \in Service : c.seen[s].at \in Nat
  BY DEF CallInv, Services!Calls, Services!Listing
<1>3. QED
  BY <1>1, <1>2 DEF CallInv

\* A call that has just been made.
LEMMA AskedCall ==
    ASSUME NEW c \in Services!Calls, c.phase = "asked", c.op # "list" => c.s \in Service,
           c.op = "load" => c.s = page'
    PROVE  CallInv(c)'
BY DEF CallInv

LEMMA InitPagesInv == ASSUME Services!PagesAssumption, Services!Init PROVE Services!PagesInv
<1>1. Types
  <2>1. /\ page \in Services!Page /\ pending \in Services!Page \cup {Services!None}
        /\ acting \in Service \cup {Services!None}
    BY DEF Services!Init, Services!Page, Services!Places
  <2>2. editor \in [of : Service \cup {"create", Services!None}, at : Nat, typed : BOOLEAN]
    BY DEF Services!Init, Services!NoEditor
  <2>3. dirty \in BOOLEAN /\ saving \in BOOLEAN /\ ready \in BOOLEAN
    BY DEF Services!Init
  <2>4. /\ catalog \in [status : Services!Status, item : Services!Listing]
        /\ shown \in Services!Status
    BY NothingIsListing DEF Services!Init, Services!Status
  <2>5. services \in Services!Listing /\ acked \in [Service -> Nat]
    <3>1. [at |-> 1, live |-> TRUE] \in [at : Nat, live : BOOLEAN]
      OBVIOUS
    <3>2. QED
      BY <3>1, NothingIsListing DEF Services!Init, Services!Listing
  <2>6. changes \in Nat /\ refreshes \in Nat /\ downs \in Nat
    BY DEF Services!Init
  <2>7. QED
    BY <2>1, <2>2, <2>3, <2>4, <2>5, <2>6 DEF Types
<1>2. Known
  BY DEF Services!Init, Known, Services!Unknown
<1>3. GuardInv
  BY DEF Services!Init, GuardInv, Services!EditorMatchesPage, Services!DirtyMeansUnsaved,
         Services!NoEditor, Services!None
<1>4. \A c \in calls : CallInv(c)
  BY DEF Services!Init
<1>5. QED
  BY <1>1, <1>2, <1>3, <1>4, PagesParts

-----------------------------------------------------------------------------
\* A step of the catalog: it reads anew, and drops or keeps reads in flight.
LEMMA CatalogStep ==
    ASSUME Services!PagesAssumption, Services!PagesInv,
           UNCHANGED <<Services!window, Services!busy, services, acked, changes>>,
           catalog' \in [status : Services!Status, item : Services!Listing], shown' \in Services!Status, ready' \in BOOLEAN,
           refreshes' \in Nat, downs' \in Nat,
           \A c \in calls' : c \in calls \/ c \in {Services!List(TRUE), Services!List(FALSE)}
    PROVE  Services!PagesInv'
<1>1. Types /\ Known /\ GuardInv /\ \A c \in calls : CallInv(c)
  BY PagesParts
<1>2. Types'
  BY <1>1 DEF Types, Services!window, Services!busy
<1>3. Known' /\ GuardInv'
  BY <1>1
     DEF Known, GuardInv, Services!EditorMatchesPage, Services!DirtyMeansUnsaved,
         Services!window
<1>4. ASSUME NEW c \in calls'
      PROVE  CallInv(c)'
  <2>1. CASE c \in calls
    <3>1. \A s \in Service : services[s].at <= services'[s].at
      BY <1>1 DEF Types, Services!Listing
    <3>2. QED
      BY <1>1, <1>2, <2>1, <3>1, KeepsCall DEF Services!window
  <2>2. CASE c \in {Services!List(TRUE), Services!List(FALSE)}
    BY <2>2, NewList, AskedCall
  <2>3. QED
    BY <1>4, <2>1, <2>2
<1>5. QED
  BY <1>2, <1>3, <1>4, PagesPartsNext

LEMMA RefreshesKeepInv ==
    ASSUME Services!PagesAssumption, Services!PagesInv,
           Services!Render \/ Services!Refresh \/ Services!RefreshSilently \/ Services!CoreDown \/ Services!CoreUp
    PROVE  Services!PagesInv'
<1>1. Types
  BY PagesParts
<1>2. Services!Loading(catalog) \in [status : Services!Status, item : Services!Listing]
  BY <1>1 DEF Types, Services!Loading, Services!Status
<1>3. [catalog EXCEPT !.status = "blocked"] \in [status : Services!Status, item : Services!Listing]
  BY <1>1 DEF Types, Services!Status
<1>4. /\ catalog \in [status : Services!Status, item : Services!Listing]
      /\ shown \in Services!Status /\ ready \in BOOLEAN
      /\ refreshes \in Nat /\ downs \in Nat /\ catalog.status \in Services!Status
  BY <1>1 DEF Types
<1>5. \A c \in Services!Refreshed(calls) \cup Services!WithoutLists(calls) \cup {Services!List(TRUE)} :
        c \in calls \/ c \in {Services!List(TRUE), Services!List(FALSE)}
  BY DEF Services!Refreshed, Services!WithoutLists
<1>6. CASE Services!Render
  BY <1>4, <1>6, CatalogStep DEF Services!Render, Services!counts
<1>7. CASE Services!Refresh
  <2>1. /\ UNCHANGED <<Services!window, Services!busy, shown, ready, services, acked, changes, downs>>
        /\ refreshes' \in Nat /\ catalog' = Services!Loading(catalog)
        /\ calls' = Services!Refreshed(calls)
    BY <1>4, <1>7 DEF Services!Refresh
  <2>2. QED
    BY <1>2, <1>4, <1>5, <2>1, CatalogStep
<1>8. CASE Services!RefreshSilently
  <2>1. /\ UNCHANGED <<Services!window, Services!busy, catalog, shown, ready, services, acked, changes, downs>>
        /\ refreshes' \in Nat /\ calls' = Services!WithoutLists(calls) \cup {Services!List(TRUE)}
    BY <1>4, <1>8 DEF Services!RefreshSilently
  <2>2. QED
    BY <1>4, <1>5, <2>1, CatalogStep
<1>9. CASE Services!CoreDown
  <2>1. /\ UNCHANGED <<Services!window, Services!busy, shown, services, acked, changes, refreshes>>
        /\ ready' = FALSE /\ downs' \in Nat /\ catalog' = [catalog EXCEPT !.status = "blocked"]
        /\ calls' = Services!WithoutLists(calls)
    BY <1>4, <1>9 DEF Services!CoreDown
  <2>2. ready' \in BOOLEAN
    BY <2>1
  <2>3. QED
    BY <1>3, <1>4, <1>5, <2>1, <2>2, CatalogStep
<1>10. CASE Services!CoreUp
  <2>1. /\ UNCHANGED <<Services!window, Services!busy, shown, services, acked, Services!counts>>
        /\ ready' = TRUE /\ catalog' = Services!Loading(catalog)
        /\ calls' = Services!Refreshed(calls)
    BY <1>10 DEF Services!CoreUp
  <2>2. ready' \in BOOLEAN
    BY <2>1
  <2>3. QED
    BY <1>2, <1>4, <1>5, <2>1, <2>2, CatalogStep DEF Services!counts
<1>11. QED
  BY <1>6, <1>7, <1>8, <1>9, <1>10

LEMMA ListAnsweredKeepsInv ==
    ASSUME Services!PagesAssumption, Services!PagesInv, NEW c \in calls, Services!ListAnswered(c)
    PROVE  Services!PagesInv'
<1>1. Types /\ c \in Services!Calls
  BY PagesParts DEF CallInv
<1>2. Services!Listed(c) \in [status : Services!Status, item : Services!Listing]
  BY <1>1 DEF Services!Listed, Types, Services!Status, Services!Calls
<1>3. QED
  BY <1>1, <1>2, CatalogStep DEF Services!ListAnswered, Types, Services!counts

-----------------------------------------------------------------------------
(* Pages.                                                                  *)

Editors == [of : Service \cup {"create", Services!None}, at : Nat, typed : BOOLEAN]

\* What a call must be, whatever page is shown.
Base(c) ==
    /\ c \in Services!Calls
    /\ c.op # "list" => c.s \in Service /\ (c.phase = "served" => c.seen[c.s].at <= services[c.s].at)
    /\ c.op = "list" /\ c.phase = "served" => \A s \in Service : c.seen[s].at >= acked[s]

\* Opening a page drops the loads, and asks for a service's record.
LEMMA OpenedCalls ==
    ASSUME Services!PagesAssumption, NEW p \in Services!Page, NEW cs, \A c \in cs : Base(c)',
           NEW c \in Services!Opened(p, cs), page' = p
    PROVE  CallInv(c)'
<1>1. CASE p \in Service /\ c = Services!Call("load", p, 0)
  <2>1. c \in Services!Calls /\ c.op = "load" /\ c.s = p /\ c.phase = "asked"
    <3>1. "load" \in ServiceOp /\ p \in Service \cup {Services!None} /\ 0 \in Nat
      BY <1>1 DEF ServiceOp
    <3>2. /\ Services!Call("load", p, 0) \in Services!Calls
          /\ Services!Call("load", p, 0).op = "load"
          /\ Services!Call("load", p, 0).s = p /\ Services!Call("load", p, 0).phase = "asked"
      BY <3>1, NewCall
    <3>3. QED
      BY <1>1, <3>2
  <2>2. QED
    BY <1>1, <2>1, AskedCall
<1>2. ASSUME NEW d \in cs, c.op # "load", c = d \/ c = [d EXCEPT !.own = FALSE]
      PROVE  CallInv(c)'
  <2>1. Base(d)'
    OBVIOUS
  <2>2. /\ c \in Services!Calls /\ c.op = d.op /\ c.s = d.s /\ c.phase = d.phase
        /\ c.seen = d.seen
    BY <1>2, <2>1 DEF Base, Services!Calls
  <2>3. QED
    BY <1>2, <2>1, <2>2 DEF Base, CallInv
<1>3. QED
  BY <1>1, <1>2 DEF Services!Opened, Services!WithoutLoads, Services!Disowned

LEMMA ShowKeeps ==
    ASSUME Services!PagesAssumption, Types, GuardInv, NEW p \in Services!Page, NEW cs,
           \A c \in cs : Base(c)' /\ (c.op = "load" => c.s = page),
           Services!Show(p, cs)
    PROVE  /\ page' = p /\ editor' \in Editors
           /\ editor'.of # Services!None => editor'.of = p
           /\ editor'.of = Services!None => ~editor'.typed
           /\ p = page => editor' = editor
           /\ p # page => ~editor'.typed
           /\ \A c \in calls' : CallInv(c)'
<1>1. page' = p
  BY DEF Services!Show
<1>2. CASE p = page
  <2>1. editor' = editor /\ calls' = cs
    BY <1>2 DEF Services!Show
  <2>2. QED
    BY <1>1, <1>2, <2>1 DEF Types, GuardInv, Services!EditorMatchesPage, Editors, Base, CallInv
<1>3. CASE p # page
  <2>1. editor' = Services!Blank(p) /\ calls' = Services!Opened(p, cs)
    BY <1>3 DEF Services!Show
  <2>2. \A c \in calls' : CallInv(c)'
    BY <1>1, <2>1, OpenedCalls
  <2>3. /\ Services!Blank(p) \in Editors /\ ~Services!Blank(p).typed
        /\ Services!Blank(p).of # Services!None => Services!Blank(p).of = p
    BY DEF Services!Blank, Services!NoEditor, Editors
  <2>4. QED
    BY <1>1, <1>3, <2>1, <2>2, <2>3
<1>4. QED
  BY <1>2, <1>3

\* Where no editor is on screen there are no edits.
LEMMA NotEditing ==
    ASSUME Services!PagesAssumption, Types, GuardInv, ~Services!Editing(page)
    PROVE  editor.of = Services!None /\ ~editor.typed /\ ~dirty
<1>1. page \notin Service /\ page # "create"
  BY Unlike DEF Services!Editing
<1>2. QED
  BY <1>1 DEF Types, GuardInv, Services!EditorMatchesPage, Services!DirtyMeansUnsaved

Screen == page \in Services!Page /\ pending \in Services!Page \cup {Services!None} /\ editor \in Editors /\ dirty \in BOOLEAN
Busy == saving \in BOOLEAN /\ acting \in Service \cup {Services!None}

LEMMA GoToKeeps ==
    ASSUME Services!PagesAssumption, Types, GuardInv, NEW p \in Services!Page, NEW cs,
           \A c \in cs : Base(c)' /\ (c.op = "load" => c.s = page),
           Services!GoTo(p, cs)
    PROVE  Screen' /\ Busy' /\ GuardInv' /\ \A c \in calls' : CallInv(c)'
<1>1. CASE Services!Leaves(p) /\ dirty
  <2>1. /\ pending' = p /\ calls' = cs /\ UNCHANGED <<page, editor, dirty, Services!busy>>
        /\ p # page
    BY <1>1 DEF Services!GoTo, Services!Leaves
  <2>2. Screen' /\ Busy'
    BY <2>1 DEF Screen, Busy, Types, Editors, Services!busy
  <2>3. GuardInv'
    BY <2>1 DEF GuardInv, Services!EditorMatchesPage, Services!DirtyMeansUnsaved
  <2>4. QED
    BY <2>1, <2>2, <2>3 DEF Base, CallInv
<1>2. CASE ~(Services!Leaves(p) /\ dirty)
  <2>1. /\ Services!Show(p, cs) /\ Services!KeepsBusy(p) /\ pending' = Services!None
        /\ dirty' = (dirty /\ ~Services!Leaves(p))
    BY <1>2 DEF Services!GoTo
  <2>2. /\ page' = p /\ editor' \in Editors
        /\ editor'.of # Services!None => editor'.of = p
        /\ editor'.of = Services!None => ~editor'.typed
        /\ p = page => editor' = editor
        /\ p # page => ~editor'.typed
        /\ \A c \in calls' : CallInv(c)'
    BY <2>1, ShowKeeps
  <2>3. Busy'
    BY <2>1 DEF Services!KeepsBusy, Busy, Types, Services!busy
  <2>4. dirty' <=> editor'.typed
    <3>1. CASE p = page
      BY <2>1, <2>2, <3>1 DEF Services!Leaves, GuardInv, Services!DirtyMeansUnsaved
    <3>2. CASE p # page /\ Services!Editing(page)
      BY <2>1, <2>2, <3>2 DEF Services!Leaves
    <3>3. CASE p # page /\ ~Services!Editing(page)
      BY <2>1, <2>2, <3>3, NotEditing
    <3>4. QED
      BY <3>1, <3>2, <3>3
  <2>5. Screen'
    BY <2>1, <2>2 DEF Screen, Types
  <2>6. pending' # page'
    BY <2>1, <2>2, Unlike
  <2>7. QED
    BY <2>2, <2>3, <2>4, <2>5, <2>6
       DEF GuardInv, Services!EditorMatchesPage, Services!DirtyMeansUnsaved
<1>3. QED
  BY <1>1, <1>2

\* The calls in flight, while neither the records nor what was told change.
LEMMA CallsAreBase ==
    ASSUME Services!PagesInv, UNCHANGED <<services, acked>>
    PROVE  \A c \in calls : Base(c)' /\ (c.op = "load" => c.s = page)
BY PagesParts DEF CallInv, Base

\* A step of the pages alone.
LEMMA ServiceStep ==
    ASSUME Services!PagesInv, Screen', Busy', GuardInv', \A c \in calls' : CallInv(c)',
           UNCHANGED <<catalog, shown, ready, services, acked, refreshes, downs>>, changes' \in Nat
    PROVE  Services!PagesInv'
<1>1. Types /\ Known
  BY PagesParts
<1>2. Types' /\ Known'
  BY <1>1 DEF Types, Known, Screen, Busy, Editors
<1>3. QED
  BY <1>2, PagesPartsNext

LEMMA NavigateKeepsInv ==
    ASSUME Services!PagesAssumption, Services!PagesInv, NEW p \in Services!Page, Services!Navigate(p)
    PROVE  Services!PagesInv'
<1>1. /\ Services!GoTo(p, calls)
      /\ UNCHANGED <<catalog, shown, ready, services, acked, Services!counts>>
      /\ Types /\ GuardInv /\ changes \in Nat
  BY PagesParts DEF Services!Navigate, Types
<1>2. Screen' /\ Busy' /\ GuardInv' /\ \A c \in calls' : CallInv(c)'
  BY <1>1, CallsAreBase, GoToKeeps
<1>3. QED
  BY <1>1, <1>2, ServiceStep DEF Services!counts

LEMMA LeaveKeepsInv ==
    ASSUME Services!PagesAssumption, Services!PagesInv, Services!ConfirmLeave
    PROVE  Services!PagesInv'
<1>1. /\ Types /\ GuardInv /\ changes \in Nat /\ pending \in Services!Page
      /\ Services!Show(pending, calls) /\ Services!KeepsBusy(pending)
      /\ pending' = Services!None /\ dirty' = FALSE
      /\ UNCHANGED <<catalog, shown, ready, services, acked, Services!counts>>
  BY PagesParts DEF Services!ConfirmLeave, Types
<1>2. /\ page' = pending /\ editor' \in Editors
      /\ editor'.of # Services!None => editor'.of = pending
      /\ editor'.of = Services!None => ~editor'.typed
      /\ pending = page => editor' = editor
      /\ pending # page => ~editor'.typed
      /\ \A c \in calls' : CallInv(c)'
  BY <1>1, CallsAreBase, ShowKeeps
<1>3. ~editor'.typed
  <2>1. CASE pending = page
    BY <1>1, <1>2, <2>1, NotEditing DEF GuardInv
  <2>2. QED
    BY <1>2, <2>1
<1>4. Screen' /\ Busy'
  BY <1>1, <1>2 DEF Screen, Busy, Services!KeepsBusy, Types, Services!busy
<1>5. GuardInv'
  <2>1. pending' # page'
    BY <1>1, <1>2, Unlike
  <2>2. QED
    BY <1>1, <1>2, <1>3, <2>1 DEF GuardInv, Services!EditorMatchesPage, Services!DirtyMeansUnsaved
<1>6. QED
  BY <1>1, <1>2, <1>4, <1>5, ServiceStep DEF Services!counts

LEMMA SamePageCalls ==
    ASSUME Services!PagesInv, UNCHANGED <<page, services, acked>>, NEW c \in calls
    PROVE  CallInv(c)'
BY PagesParts DEF CallInv

LEMMA KeepEditingKeepsInv ==
    ASSUME Services!PagesAssumption, Services!PagesInv, Services!KeepEditing
    PROVE  Services!PagesInv'
<1>1. /\ Types /\ GuardInv /\ changes \in Nat /\ pending' = Services!None
      /\ UNCHANGED <<page, editor, dirty, Services!busy, catalog, shown, ready, services, acked, calls, Services!counts>>
  BY PagesParts DEF Services!KeepEditing, Types
<1>2. Screen' /\ Busy'
  BY <1>1 DEF Screen, Busy, Types, Editors, Services!busy
<1>3. GuardInv'
  BY <1>1, Unlike DEF GuardInv, Services!EditorMatchesPage, Services!DirtyMeansUnsaved, Types
<1>4. QED
  BY <1>1, <1>2, <1>3, SamePageCalls, ServiceStep DEF Services!counts

LEMMA TypeKeepsInv ==
    ASSUME Services!PagesAssumption, Services!PagesInv, Services!Type
    PROVE  Services!PagesInv'
<1>1. /\ Types /\ GuardInv /\ changes \in Nat /\ editor.of # Services!None
      /\ editor' = [editor EXCEPT !.typed = ~@] /\ dirty' = editor'.typed
      /\ UNCHANGED <<page, pending, Services!busy, catalog, shown, ready, services, acked, calls, Services!counts>>
  BY PagesParts DEF Services!Type, Types
<1>2. editor' \in Editors /\ editor'.of = editor.of /\ dirty' \in BOOLEAN
  BY <1>1 DEF Types, Editors
<1>3. Screen' /\ Busy'
  BY <1>1, <1>2 DEF Screen, Busy, Types, Services!busy
<1>4. GuardInv'
  BY <1>1, <1>2 DEF GuardInv, Services!EditorMatchesPage, Services!DirtyMeansUnsaved
<1>5. QED
  BY <1>1, <1>3, <1>4, SamePageCalls, ServiceStep DEF Services!counts

LEMMA LoadKeepsInv ==
    ASSUME Services!PagesAssumption, Services!PagesInv, NEW c \in calls, Services!LoadAnswered(c)
    PROVE  Services!PagesInv'
<1>1. /\ Types /\ GuardInv /\ changes \in Nat /\ CallInv(c) /\ c.op = "load"
      /\ calls' = calls \ {c}
      /\ UNCHANGED <<page, pending, Services!busy, catalog, shown, ready, services, acked, Services!counts>>
  BY PagesParts DEF Services!LoadAnswered, Types
<1>2. editor' \in Editors /\ dirty' \in BOOLEAN /\ GuardInv'
  <2>1. CASE c.phase = "served"
    <3>1. editor' = [of |-> c.s, at |-> c.seen[c.s].at, typed |-> FALSE] /\ dirty' = FALSE
      BY <2>1 DEF Services!LoadAnswered
    <3>2. c.s \in Service /\ c.s = page /\ c.seen[c.s].at \in Nat
      BY <1>1 DEF CallInv, Services!Calls, Services!Listing
    <3>3. QED
      BY <1>1, <3>1, <3>2
         DEF Editors, GuardInv, Services!EditorMatchesPage, Services!DirtyMeansUnsaved
  <2>2. CASE c.phase # "served"
    <3>1. UNCHANGED <<editor, dirty>>
      BY <2>2 DEF Services!LoadAnswered
    <3>2. QED
      BY <1>1, <3>1
         DEF Types, Editors, GuardInv, Services!EditorMatchesPage,
             Services!DirtyMeansUnsaved
  <2>3. QED
    BY <2>1, <2>2
<1>3. Screen' /\ Busy'
  BY <1>1, <1>2 DEF Screen, Busy, Types, Services!busy
<1>4. QED
  BY <1>1, <1>2, <1>3, SamePageCalls, ServiceStep DEF Services!counts

-----------------------------------------------------------------------------
(* Calls made, and answers that change no record.                          *)

\* A step that leaves the pages alone and makes one new call at most.
LEMMA CallStep ==
    ASSUME Services!PagesInv, NEW d, NEW cs \in SUBSET calls,
           UNCHANGED <<Services!window, catalog, shown, ready, services, acked, refreshes, downs>>,
           Busy', changes' \in Nat, calls' = cs \cup {d}, CallInv(d)'
    PROVE  Services!PagesInv'
<1>1. Screen' /\ GuardInv'
  BY PagesParts
     DEF Screen, Types, Editors, GuardInv, Services!EditorMatchesPage,
         Services!DirtyMeansUnsaved, Services!window
<1>2. \A c \in calls' : CallInv(c)'
  BY SamePageCalls DEF Services!window
<1>3. QED
  BY <1>1, <1>2, ServiceStep

LEMMA DropStep ==
    ASSUME Services!PagesInv, NEW cs \in SUBSET calls,
           UNCHANGED <<Services!window, catalog, shown, ready, services, acked, refreshes, downs>>,
           Busy', changes' \in Nat, calls' = cs
    PROVE  Services!PagesInv'
<1>1. Screen' /\ GuardInv'
  BY PagesParts
     DEF Screen, Types, Editors, GuardInv, Services!EditorMatchesPage,
         Services!DirtyMeansUnsaved, Services!window
<1>2. \A c \in calls' : CallInv(c)'
  BY SamePageCalls DEF Services!window
<1>3. QED
  BY <1>1, <1>2, ServiceStep

LEMMA AskKeepsInv ==
    ASSUME Services!PagesInv, NEW o \in ServiceOp \ {"list", "load"}, NEW s \in Service, NEW at \in Nat, NEW d,
           d = Services!Call(o, s, at) \/ d = [Services!Call(o, s, at) EXCEPT !.own = FALSE], Services!Ask(d), Busy'
    PROVE  Services!PagesInv'
<1>1. /\ Services!Call(o, s, at) \in Services!Calls /\ Services!Call(o, s, at).op = o
      /\ Services!Call(o, s, at).s = s
      /\ Services!Call(o, s, at).phase = "asked"
  BY NewCall
<1>2. d \in Services!Calls /\ d.op = o /\ d.s = s /\ d.phase = "asked"
  BY <1>1 DEF Services!Calls
<1>3. CallInv(d)'
  BY <1>2, AskedCall
<1>4. Types
  BY PagesParts
<1>5. QED
  BY <1>3, <1>4, CallStep DEF Services!Ask, Types

LEMMA ActionsKeepInv ==
    ASSUME Services!PagesAssumption, Services!PagesInv,
           \/ Services!Save
           \/ \E s \in Service : \/ \E kind \in {"toggleRead", "deleteRead", "change"} : Services!ActOn(s, kind)
                              \/ \E kind \in Services!Imports : Services!Import(s, kind)
    PROVE  Services!PagesInv'
<1>1. Types
  BY PagesParts
<1>2. {"create", "save", "toggleRead", "deleteRead", "change"} \cup Services!Imports \subseteq ServiceOp \ {"list", "load"}
  BY DEF ServiceOp, Services!Imports, Services!Write, Services!Conditional, Services!Creating
<1>3. CASE Services!Save
  <2>1. Busy'
    BY <1>1, <1>3 DEF Services!Save, Busy, Types
  <2>2. CASE \E s \in Service : Services!Ask(Services!Call("create", s, 0))
    BY <1>2, <2>1, <2>2, AskKeepsInv
  <2>3. CASE editor.of \in Service /\ Services!Ask(Services!Call("save", editor.of, editor.at))
    BY <1>1, <1>2, <2>1, <2>3, AskKeepsInv DEF Types
  <2>4. QED
    BY <1>3, <2>2, <2>3 DEF Services!Save
<1>4. ASSUME NEW s \in Service, NEW kind \in {"toggleRead", "deleteRead", "change"}, Services!ActOn(s, kind)
      PROVE  Services!PagesInv'
  <2>1. Busy' /\ Services!Ask(Services!Call(kind, s, 0))
    BY <1>1, <1>4 DEF Services!ActOn, Busy, Types
  <2>2. QED
    BY <1>2, <1>4, <2>1, AskKeepsInv
<1>5. ASSUME NEW s \in Service, NEW kind \in Services!Imports, Services!Import(s, kind)
      PROVE  Services!PagesInv'
  <2>1. Busy' /\ Services!Ask([Services!Call(kind, s, 0) EXCEPT !.own = FALSE])
    BY <1>1, <1>5 DEF Services!Import, Busy, Services!busy, Types
  <2>2. QED
    BY <1>2, <1>5, <2>1, AskKeepsInv
<1>6. QED
  BY <1>3, <1>4, <1>5

LEMMA ReadKeepsInv ==
    ASSUME Services!PagesAssumption, Services!PagesInv, NEW c \in calls, Services!ReadAnswered(c)
    PROVE  Services!PagesInv'
<1>1. /\ Types /\ CallInv(c) /\ c \in Services!Calls /\ c.op \in {"toggleRead", "deleteRead"}
      /\ UNCHANGED <<Services!window, saving, catalog, shown, ready, services, acked, Services!counts>>
  BY PagesParts DEF Services!ReadAnswered, CallInv
<1>2. CASE c.phase = "served"
  <2>1. calls' = (calls \ {c}) \cup {Services!WriteAfter(c)} /\ UNCHANGED acting
    BY <1>2 DEF Services!ReadAnswered
  <2>2. c.s \in Service /\ c.seen[c.s].at \in Nat
    BY <1>1 DEF CallInv, Services!Calls, Services!Listing
  <2>3. /\ Services!WriteAfter(c) \in Services!Calls
        /\ Services!WriteAfter(c).phase = "asked" /\ Services!WriteAfter(c).s = c.s
        /\ Services!WriteAfter(c).op \in {"toggleWrite", "deleteWrite"}
    BY <1>1, <2>2, NothingIsListing
       DEF Services!WriteAfter, Services!Calls, Services!Write, Services!Conditional
  <2>4. CallInv(Services!WriteAfter(c))'
    BY <2>2, <2>3, AskedCall
  <2>5. Busy' /\ changes' \in Nat
    BY <1>1, <2>1 DEF Busy, Types, Services!counts
  <2>6. QED
    BY <1>1, <2>1, <2>4, <2>5, CallStep DEF Services!counts
<1>3. CASE c.phase # "served"
  <2>1. calls' = calls \ {c} /\ Services!Frees(c)
    BY <1>3 DEF Services!ReadAnswered
  <2>2. Busy' /\ changes' \in Nat
    BY <1>1, <2>1 DEF Busy, Types, Services!counts, Services!Frees
  <2>3. QED
    BY <1>1, <2>1, <2>2, DropStep DEF Services!counts
<1>4. QED
  BY <1>2, <1>3

LEMMA ChangeFailedKeepsInv ==
    ASSUME Services!PagesAssumption, Services!PagesInv, NEW c \in calls, Services!ChangeFailed(c)
    PROVE  Services!PagesInv'
<1>1. Types /\ GuardInv /\ CallInv(c) /\ c \in Services!Calls
  BY PagesParts DEF CallInv
<1>2. Busy' /\ changes' \in Nat
  BY <1>1 DEF Services!ChangeFailed, Busy, Types, Services!counts, Services!Frees
<1>3. /\ editor' \in Editors /\ editor'.of = editor.of /\ (editor'.typed => editor.typed)
      /\ dirty' = editor'.typed /\ UNCHANGED <<page, pending>>
  BY <1>1 DEF Services!ChangeFailed, Types, Editors, GuardInv, Services!DirtyMeansUnsaved
<1>4. Screen' /\ GuardInv'
  BY <1>1, <1>3
     DEF Screen, Types, Editors, GuardInv, Services!EditorMatchesPage, Services!DirtyMeansUnsaved
<1>5. \A d \in calls' : CallInv(d)'
  BY SamePageCalls DEF Services!ChangeFailed
<1>6. QED
  BY <1>2, <1>4, <1>5, ServiceStep DEF Services!ChangeFailed, Services!counts

LEMMA FailKeepsInv ==
    ASSUME Services!PagesAssumption, Services!PagesInv, NEW c \in calls, Services!Fail(c)
    PROVE  Services!PagesInv'
<1>1. Types /\ CallInv(c) /\ c \in Services!Calls
  BY PagesParts DEF CallInv
<1> DEFINE d == [c EXCEPT !.phase = "failed", !.seen = Services!Nothing]
<1>2. /\ d \in Services!Calls /\ d.op = c.op /\ d.s = c.s /\ d.phase = "failed"
  BY <1>1, NothingIsListing DEF Services!Calls
<1>3. page' = page
  BY DEF Services!Fail, Services!window
<1>4. CallInv(d)'
  BY <1>1, <1>2, <1>3 DEF CallInv
<1>5. Busy' /\ changes' \in Nat
  BY <1>1 DEF Services!Fail, Busy, Types, Services!counts, Services!busy
<1>6. calls' = (calls \ {c}) \cup {d}
  BY DEF Services!Fail
<1>7. UNCHANGED <<Services!window, catalog, shown, ready, services, acked, refreshes, downs>>
  BY DEF Services!Fail, Services!counts
<1> HIDE DEF d
<1>8. QED
  BY <1>4, <1>5, <1>6, <1>7, CallStep

-----------------------------------------------------------------------------
(* Core's records, and what the window is told of them.                    *)

\* A record that Core has changed.
LEMMA NewerRecords ==
    ASSUME Services!PagesInv, NEW s \in Service, NEW live \in BOOLEAN,
           services' = [services EXCEPT ![s] = [at |-> @.at + 1, live |-> live]]
    PROVE  /\ services' \in Services!Listing
           /\ \A t \in Service : services[t].at \in Nat /\ services[t].at <= services'[t].at
<1>1. services \in Services!Listing
  BY PagesParts DEF Types
<1>2. [at |-> services[s].at + 1, live |-> live] \in [at : Nat, live : BOOLEAN]
  BY <1>1 DEF Services!Listing
<1>3. QED
  BY <1>1, <1>2 DEF Services!Listing

\* A step of Core: records get newer, one call at most is replaced.
LEMMA CoreStep ==
    ASSUME Services!PagesInv, services' \in Services!Listing, \A s \in Service : services[s].at <= services'[s].at,
           UNCHANGED <<Services!window, Services!busy, catalog, shown, ready, acked, refreshes, downs>>,
           changes' \in Nat,
           \A c \in calls' : c \in calls \/ CallInv(c)'
    PROVE  Services!PagesInv'
<1>1. Types /\ Known /\ GuardInv /\ \A c \in calls : CallInv(c)
  BY PagesParts
<1>2. Types' /\ GuardInv'
  BY <1>1
     DEF Types, GuardInv, Services!EditorMatchesPage, Services!DirtyMeansUnsaved,
         Services!window, Services!busy
<1>3. Known'
  <2>1. ASSUME NEW s \in Service PROVE acked'[s] <= services'[s].at
    <3>1. acked[s] <= services[s].at /\ services[s].at <= services'[s].at /\ acked' = acked
      BY <1>1 DEF Known
    <3>2. acked[s] \in Nat /\ services[s].at \in Nat /\ services'[s].at \in Nat
      BY <1>1 DEF Types, Services!Listing
    <3>3. QED
      BY <3>1, <3>2
  <2>2. QED
    BY <2>1 DEF Known
<1>4. \A c \in calls' : CallInv(c)'
  BY <1>1, <1>2, KeepsCall DEF Services!window
<1>5. QED
  BY <1>2, <1>3, <1>4, PagesPartsNext

LEMMA ElsewhereKeepsInv ==
    ASSUME Services!PagesInv, NEW s \in Service, Services!ChangedElsewhere(s)
    PROVE  Services!PagesInv'
<1>1. PICK live \in BOOLEAN : services' = [services EXCEPT ![s] = [at |-> @.at + 1, live |-> live]]
  BY DEF Services!ChangedElsewhere
<1>2. services' \in Services!Listing /\ \A t \in Service : services[t].at <= services'[t].at
  BY <1>1, NewerRecords
<1>3. changes' \in Nat
  BY PagesParts DEF Services!ChangedElsewhere, Types
<1>4. QED
  BY <1>2, <1>3, CoreStep DEF Services!ChangedElsewhere

LEMMA ServeKeepsInv ==
    ASSUME Services!PagesAssumption, Services!PagesInv, NEW c \in calls, Services!Serve(c)
    PROVE  Services!PagesInv'
<1>1. Types /\ Known /\ CallInv(c) /\ c \in Services!Calls
  BY PagesParts DEF CallInv
<1>2. /\ UNCHANGED <<Services!window, Services!busy, catalog, shown, ready, acked, Services!counts>>
      /\ changes' \in Nat
  BY <1>1 DEF Services!Serve, Types, Services!counts
<1>3. page' = page
  BY <1>2 DEF Services!window
<1>4. CASE Services!Refuses(c)
  <2> DEFINE d == [c EXCEPT !.phase = "failed"]
  <2>1. calls' = (calls \ {c}) \cup {d} /\ UNCHANGED services
    BY <1>4 DEF Services!Serve
  <2>2. d \in Services!Calls /\ d.op = c.op /\ d.s = c.s /\ d.phase = "failed"
    BY <1>1 DEF Services!Calls
  <2>3. CallInv(d)'
    BY <1>1, <1>3, <2>2 DEF CallInv
  <2>4. services' \in Services!Listing /\ \A s \in Service : services[s].at <= services'[s].at
    BY <1>1, <2>1 DEF Types, Services!Listing
  <2> HIDE DEF d
  <2>5. \A e \in calls' : e \in calls \/ CallInv(e)'
    BY <2>1, <2>3
  <2>6. QED
    BY <1>2, <2>4, <2>5, CoreStep DEF Services!counts
<1>5. CASE ~Services!Refuses(c)
  <2>a. PICK shows : shows = IF c.op = "list" THEN services' ELSE [Services!Nothing EXCEPT ![c.s] = services'[c.s]]
    OBVIOUS
  <2>b. PICK d : d = [c EXCEPT !.phase = "served", !.seen = shows]
    OBVIOUS
  <2>1. calls' = (calls \ {c}) \cup {d}
    BY <1>5, <2>a, <2>b DEF Services!Serve, Services!Shows
  <2>2. services' \in Services!Listing /\ \A s \in Service : services[s].at \in Nat /\ services[s].at <= services'[s].at
    <3>1. CASE c.op \in Services!Write
      <4>1. c.s \in Service
        BY <1>1, <3>1
           DEF CallInv, Services!Write, Services!Conditional, Services!Creating,
               Services!Imports
      <4>2. services' = [services EXCEPT ![c.s] = [at |-> @.at + 1, live |-> c.op # "deleteWrite"]]
        BY <1>5, <3>1 DEF Services!Serve
      <4>3. (c.op # "deleteWrite") \in BOOLEAN
        OBVIOUS
      <4>4. QED
        BY <4>1, <4>2, <4>3, NewerRecords
    <3>2. CASE c.op \notin Services!Write
      <4>1. services' = services
        BY <1>5, <3>2 DEF Services!Serve
      <4>2. QED
        BY <1>1, <4>1 DEF Types, Services!Listing
    <3>3. QED
      BY <3>1, <3>2
  <2>3. shows \in Services!Listing /\ \A s \in Service : c.op = "list" => shows[s] = services'[s]
    BY <2>a, <2>2, NothingIsListing DEF Services!Listing
  <2>4. c.op # "list" => c.s \in Service /\ shows[c.s] = services'[c.s]
    BY <1>1, <2>a, NothingIsListing DEF CallInv, Services!Listing
  <2>5. /\ d \in Services!Calls /\ d.op = c.op /\ d.s = c.s /\ d.phase = "served"
        /\ d.seen = shows
    BY <1>1, <2>b, <2>3 DEF Services!Calls
  <2>6. CallInv(d)'
    <3>1. c.op # "list" => d.seen[d.s].at <= services'[d.s].at
      BY <2>2, <2>4, <2>5 DEF Services!Listing
    <3>2. c.op = "list" => \A s \in Service : d.seen[s].at >= acked'[s]
      <4>1. SUFFICES ASSUME c.op = "list", NEW s \in Service PROVE d.seen[s].at >= acked'[s]
        OBVIOUS
      <4>2. d.seen[s].at = services'[s].at /\ acked' = acked
        BY <1>2, <2>3, <2>5, <4>1
      <4>3. acked[s] <= services[s].at /\ services[s].at <= services'[s].at
        BY <1>1, <2>2 DEF Known
      <4>4. acked[s] \in Nat /\ services[s].at \in Nat /\ services'[s].at \in Nat
        BY <1>1, <2>2 DEF Types, Services!Listing
      <4>5. QED
        BY <4>2, <4>3, <4>4
    <3>3. QED
      BY <1>1, <1>3, <2>4, <2>5, <3>1, <3>2 DEF CallInv
  <2>7. \A e \in calls' : e \in calls \/ CallInv(e)'
    BY <2>1, <2>6
  <2>8. QED
    BY <1>2, <2>2, <2>7, CoreStep DEF Services!counts
<1>6. QED
  BY <1>4, <1>5

-----------------------------------------------------------------------------
(* The window is told of a change, and supersedes the reads before it.     *)

LEMMA Told ==
    ASSUME Services!PagesInv, NEW c \in calls, c.op \in Services!Write, c.phase = "served",
           services' = services, acked' = Services!Acknowledged(c)
    PROVE  /\ acked' \in [Service -> Nat] /\ Known'
           /\ Services!Remembered(c) \in [status : Services!Status, item : Services!Listing]
           /\ Services!Loading(Services!Remembered(c)) \in [status : Services!Status, item : Services!Listing]
           /\ \A d \in Services!Refreshed(Services!Superseded(calls \ {c})) :
                 Base(d)' /\ (d.op = "load" => d.s = page)
<1>1. Types /\ Known /\ CallInv(c) /\ \A d \in calls : CallInv(d)
  BY PagesParts
<1>2. c.s \in Service /\ c.seen[c.s].at <= services[c.s].at /\ c.seen \in Services!Listing
  BY <1>1
     DEF CallInv, Services!Calls, Services!Write, Services!Conditional, Services!Creating,
         Services!Imports
<1>3. c.seen[c.s] \in [at : Nat, live : BOOLEAN] /\ c.seen[c.s].at \in Nat
  BY <1>2 DEF Services!Listing
<1>4. acked' \in [Service -> Nat]
  BY <1>1, <1>2, <1>3 DEF Services!Acknowledged, Types
<1>5. Known'
  <2>1. SUFFICES ASSUME NEW s \in Service PROVE acked'[s] <= services'[s].at
    BY DEF Known
  <2>2. CASE s = c.s
    BY <1>1, <1>2, <2>2 DEF Services!Acknowledged, Types, Known
  <2>3. CASE s # c.s
    BY <1>1, <1>2, <2>3 DEF Services!Acknowledged, Types, Known
  <2>4. QED
    BY <2>2, <2>3
<1>6. Services!Remembered(c) \in [status : Services!Status, item : Services!Listing]
  <2>1. catalog.item \in Services!Listing
    BY <1>1 DEF Types
  <2>2. [catalog.item EXCEPT ![c.s] = c.seen[c.s]] \in Services!Listing
    BY <1>2, <1>3, <2>1 DEF Services!Listing
  <2>3. QED
    BY <2>2 DEF Services!Remembered, Services!Status
<1>7. Services!Loading(Services!Remembered(c)) \in [status : Services!Status, item : Services!Listing]
  BY <1>6 DEF Services!Loading, Services!Status
<1>8. ASSUME NEW d \in Services!Refreshed(Services!Superseded(calls \ {c}))
      PROVE  Base(d)' /\ (d.op = "load" => d.s = page)
  <2>1. CASE d = Services!List(FALSE)
    <3>1. d \in Services!Calls /\ d.op = "list" /\ d.phase = "asked"
      BY <2>1, NewList
    <3>2. QED
      BY <3>1 DEF Base
  <2>2. CASE d \in calls /\ d.op # "list"
    BY <1>1, <2>2 DEF CallInv, Base
  <2>3. QED
    BY <1>8, <2>1, <2>2 DEF Services!Refreshed, Services!Superseded, Services!WithoutLists
<1>9. QED
  BY <1>4, <1>5, <1>6, <1>7, <1>8

LEMMA ToldStep ==
    ASSUME Services!PagesInv, Screen', Busy', GuardInv', Known', \A c \in calls' : CallInv(c)',
           acked' \in [Service -> Nat], catalog' \in [status : Services!Status, item : Services!Listing],
           UNCHANGED <<shown, ready, services, Services!counts>>
    PROVE  Services!PagesInv'
<1>1. Types
  BY PagesParts
<1>2. Types'
  BY <1>1 DEF Types, Screen, Busy, Editors, Services!counts
<1>3. QED
  BY <1>2, PagesPartsNext

\* Without the refresh, the calls are among those.
LEMMA FewerCalls ==
    ASSUME NEW cs PROVE cs \subseteq calls => Services!Superseded(cs) \subseteq Services!Refreshed(Services!Superseded(cs))
BY DEF Services!Superseded, Services!Refreshed, Services!WithoutLists

LEMMA SavedKeepsInv ==
    ASSUME Services!PagesAssumption, Services!PagesInv, NEW c \in calls, Services!Saved(c)
    PROVE  Services!PagesInv'
<1>1. Types /\ GuardInv /\ c.op \in Services!Write /\ c.phase = "served"
  BY PagesParts
     DEF Services!Saved, Services!ShowsList, Services!Saves, Services!Write, Services!Conditional, Services!Creating
<1>2. /\ catalog' = Services!Loading(Services!Remembered(c)) /\ acked' = Services!Acknowledged(c)
      /\ Services!Show("list", Services!Refreshed(Services!Superseded(calls \ {c})))
      /\ dirty' = FALSE /\ UNCHANGED <<shown, ready, services, Services!counts>>
  BY DEF Services!Saved
<1>3. /\ acked' \in [Service -> Nat] /\ Known'
      /\ catalog' \in [status : Services!Status, item : Services!Listing]
      /\ \A d \in Services!Refreshed(Services!Superseded(calls \ {c})) :
            Base(d)' /\ (d.op = "load" => d.s = page)
  BY <1>1, <1>2, Told
<1>4. /\ page' = "list" /\ editor' \in Editors
      /\ editor'.of # Services!None => editor'.of = "list"
      /\ editor'.of = Services!None => ~editor'.typed
      /\ "list" = page => editor' = editor
      /\ "list" # page => ~editor'.typed
      /\ \A d \in calls' : CallInv(d)'
  BY <1>1, <1>2, <1>3, ShowKeeps, Unlike
<1>5. pending' \in Services!Page \cup {Services!None} /\ Busy'
  BY <1>1 DEF Services!Saved, Types, Busy, Services!Frees
<1>6. Screen'
  BY <1>2, <1>4, <1>5, Unlike DEF Screen
<1>7. GuardInv'
  <2>1. ~editor'.typed
    BY <1>1, <1>4, NotEditing, Unlike
  <2>2. QED
    BY <1>2, <1>4, <2>1, Unlike DEF GuardInv, Services!EditorMatchesPage, Services!DirtyMeansUnsaved
<1>8. QED
  BY <1>2, <1>3, <1>4, <1>5, <1>6, <1>7, ToldStep

LEMMA RemovedKeepsInv ==
    ASSUME Services!PagesAssumption, Services!PagesInv, NEW c \in calls, Services!Removed(c)
    PROVE  Services!PagesInv'
<1>1. Types /\ GuardInv /\ c.op \in Services!Write /\ c.phase = "served"
  BY PagesParts DEF Services!Removed, Services!Write, Services!Conditional
<1>2. /\ catalog' = Services!Loading(Services!Remembered(c)) /\ acked' = Services!Acknowledged(c)
      /\ calls' = Services!Refreshed(Services!Superseded(calls \ {c})) /\ Services!Frees(c)
      /\ UNCHANGED <<Services!window, saving, shown, ready, services, Services!counts>>
  BY DEF Services!Removed
<1>3. /\ acked' \in [Service -> Nat] /\ Known'
      /\ catalog' \in [status : Services!Status, item : Services!Listing]
      /\ \A d \in Services!Refreshed(Services!Superseded(calls \ {c})) :
            Base(d)' /\ (d.op = "load" => d.s = page)
  BY <1>1, <1>2, Told
<1>4. \A d \in calls' : CallInv(d)'
  BY <1>2, <1>3 DEF Base, CallInv, Services!window
<1>5. Screen' /\ Busy' /\ GuardInv'
  BY <1>1, <1>2
     DEF Screen, Busy, Types, Editors, GuardInv, Services!EditorMatchesPage,
         Services!DirtyMeansUnsaved, Services!window, Services!Frees
<1>6. QED
  BY <1>2, <1>3, <1>4, <1>5, ToldStep

LEMMA ImportedKeepsInv ==
    ASSUME Services!PagesAssumption, Services!PagesInv, NEW c \in calls, Services!Imported(c) \/ Services!ProviderAdded(c)
    PROVE  Services!PagesInv'
<1>1. Types /\ GuardInv /\ c.op \in Services!Write /\ c.phase = "served"
  BY PagesParts
     DEF Services!Imported, Services!ProviderAdded, Services!Write, Services!Creating,
         Services!Imports
<1>2. /\ catalog' = Services!Remembered(c) /\ acked' = Services!Acknowledged(c)
      /\ UNCHANGED <<shown, ready, services, Services!counts>>
  BY DEF Services!Imported, Services!ProviderAdded
<1>3. /\ acked' \in [Service -> Nat] /\ Known'
      /\ catalog' \in [status : Services!Status, item : Services!Listing]
      /\ \A d \in Services!Superseded(calls \ {c}) : Base(d)' /\ (d.op = "load" => d.s = page)
  BY <1>1, <1>2, Told, FewerCalls
<1>4. CASE Services!Imported(c)
  <2>1. calls' = Services!Superseded(calls \ {c}) /\ UNCHANGED <<Services!window, Services!busy>>
    BY <1>4 DEF Services!Imported
  <2>2. \A d \in calls' : CallInv(d)'
    BY <1>3, <2>1 DEF Base, CallInv, Services!window
  <2>3. Screen' /\ Busy' /\ GuardInv'
    BY <1>1, <2>1 DEF Screen, Busy, Types, Editors, GuardInv, Services!EditorMatchesPage,
       Services!DirtyMeansUnsaved, Services!window, Services!busy
  <2>4. QED
    BY <1>2, <1>3, <2>2, <2>3, ToldStep
<1>5. CASE Services!ProviderAdded(c)
  <2>1. c.s \in Service
    BY <1>1, PagesParts
       DEF CallInv, Services!Write, Services!Conditional, Services!Creating,
           Services!Imports
  <2>2. PICK p \in {"list", c.s} : Services!GoTo(p, Services!Superseded(calls \ {c}))
    BY <1>5 DEF Services!ProviderAdded
  <2>3. p \in Services!Page
    BY <2>1, Unlike DEF Services!Page
  <2>4. Screen' /\ Busy' /\ GuardInv' /\ \A d \in calls' : CallInv(d)'
    BY <1>1, <1>3, <2>2, <2>3, GoToKeeps
  <2>5. QED
    BY <1>2, <1>3, <2>4, ToldStep
<1>6. QED
  BY <1>4, <1>5

-----------------------------------------------------------------------------
LEMMA StepKeepsPagesInv ==
    ASSUME Services!PagesAssumption, Services!PagesInv, [Services!Next]_(Services!vars)
    PROVE  Services!PagesInv'
<1>1. CASE Services!Next
  <2>1. CASE \/ Services!Render \/ Services!Refresh \/ Services!RefreshSilently
             \/ Services!CoreDown \/ Services!CoreUp
    BY <2>1, RefreshesKeepInv
  <2>2. ASSUME NEW p \in Services!Page, Services!Navigate(p) PROVE Services!PagesInv'
    BY <2>2, NavigateKeepsInv
  <2>3. CASE Services!ConfirmLeave \/ Services!KeepEditing \/ Services!Type
    BY <2>3, LeaveKeepsInv, KeepEditingKeepsInv, TypeKeepsInv
  <2>4. CASE \/ Services!Save
             \/ \E s \in Service : \/ \E kind \in {"toggleRead", "deleteRead", "change"} : Services!ActOn(s, kind)
                                \/ \E kind \in Services!Imports : Services!Import(s, kind)
    BY <2>4, ActionsKeepInv
  <2>5. ASSUME NEW s \in Service, Services!ChangedElsewhere(s) PROVE Services!PagesInv'
    BY <2>5, ElsewhereKeepsInv
  <2>6. ASSUME NEW c \in calls, Services!Serve(c) \/ Services!Fail(c) \/ Services!Answer(c) PROVE Services!PagesInv'
    <3>1. CASE Services!Serve(c) \/ Services!Fail(c)
      BY <3>1, ServeKeepsInv, FailKeepsInv
    <3>2. CASE Services!Answer(c)
      BY <3>2, ListAnsweredKeepsInv, LoadKeepsInv, ReadKeepsInv, ChangeFailedKeepsInv,
         SavedKeepsInv, RemovedKeepsInv, ImportedKeepsInv DEF Services!Answer
    <3>3. QED
      BY <2>6, <3>1, <3>2
  <2>7. QED
    BY <1>1, <2>1, <2>2, <2>3, <2>4, <2>5, <2>6 DEF Services!Next
<1>2. CASE UNCHANGED Services!vars
  <2>1. /\ UNCHANGED <<Services!window, Services!busy, services, acked, changes, catalog, shown, ready, refreshes, downs>>
        /\ calls' = calls
    BY <1>2 DEF Services!vars, Services!counts
  <2>2. /\ catalog \in [status : Services!Status, item : Services!Listing]
        /\ shown \in Services!Status /\ ready \in BOOLEAN
        /\ refreshes \in Nat /\ downs \in Nat
    BY PagesParts DEF Types
  <2>3. QED
    BY <2>1, <2>2, CatalogStep
<1>3. QED
  BY <1>1, <1>2

\* Without a new load, and with the editor of the same service, it stays one load.
LEMMA SameLoads ==
    ASSUME Services!OneLoad, editor'.of = editor.of, \A e \in calls' : e.op = "load" => e \in calls
    PROVE  Services!OneLoad'
BY DEF Services!OneLoad

LEMMA ReplacedLoad ==
    ASSUME Services!OneLoad, UNCHANGED editor, NEW c \in calls, NEW d, d.op = c.op,
           calls' = (calls \ {c}) \cup {d}
    PROVE  Services!OneLoad'
BY DEF Services!OneLoad

\* A page that is shown anew awaits its own load only.
LEMMA ShownLoads ==
    ASSUME Services!PagesAssumption, Services!OneLoad, NEW p, NEW cs,
           \A e \in cs : e.op = "load" => e \in calls, Services!Show(p, cs)
    PROVE  Services!OneLoad'
<1>1. CASE p = page
  BY <1>1, SameLoads DEF Services!Show
<1>2. CASE p # page
  <2>1. editor' = Services!Blank(p) /\ calls' = Services!Opened(p, cs)
    BY <1>2 DEF Services!Show
  <2>2. \A e \in calls' : e.op = "load" => p \in Service /\ e = Services!Call("load", p, 0)
    BY <2>1 DEF Services!Opened, Services!WithoutLoads
  <2>3. p \in Service => editor'.of = Services!None
    BY <2>1, Unlike DEF Services!Blank, Services!NoEditor
  <2>4. QED
    BY <2>2, <2>3 DEF Services!OneLoad
<1>3. QED
  BY <1>1, <1>2

LEMMA GoneToLoads ==
    ASSUME Services!PagesAssumption, Services!OneLoad, NEW p, NEW cs,
           \A e \in cs : e.op = "load" => e \in calls, Services!GoTo(p, cs)
    PROVE  Services!OneLoad'
BY SameLoads, ShownLoads DEF Services!GoTo

\* The calls that a change leaves are those before, and at most a list.
LEMMA ToldLoads ==
    ASSUME NEW c, NEW e, e.op = "load",
           \/ e \in Services!Refreshed(Services!Superseded(calls \ {c}))
           \/ e \in Services!Refreshed(calls)
           \/ e \in Services!Superseded(calls \ {c})
           \/ e \in Services!WithoutLists(calls) \cup {Services!List(TRUE)}
    PROVE  e \in calls
BY NewList DEF Services!Refreshed, Services!Superseded, Services!WithoutLists

LEMMA StepKeepsOneLoad ==
    ASSUME Services!PagesAssumption, Services!PagesInv, Services!OneLoad, [Services!Next]_(Services!vars)
    PROVE  Services!OneLoad'
<1>1. CASE \/ Services!Render \/ Services!Refresh \/ Services!RefreshSilently
           \/ Services!CoreDown \/ Services!CoreUp \/ Services!KeepEditing
           \/ UNCHANGED Services!vars
  <2>1. editor' = editor
    BY <1>1
       DEF Services!Render, Services!Refresh, Services!RefreshSilently, Services!CoreDown,
           Services!CoreUp, Services!KeepEditing, Services!vars, Services!window
  <2>2. ASSUME NEW e \in calls', e.op = "load" PROVE e \in calls
    BY <1>1, <2>2, ToldLoads
       DEF Services!Render, Services!Refresh, Services!RefreshSilently, Services!CoreDown,
           Services!CoreUp, Services!KeepEditing, Services!vars, Services!WithoutLists
  <2>3. QED
    BY <2>1, <2>2, SameLoads
<1>2. ASSUME NEW p \in Services!Page, Services!Navigate(p) PROVE Services!OneLoad'
  BY <1>2, GoneToLoads DEF Services!Navigate
<1>3. CASE Services!ConfirmLeave
  BY <1>3, ShownLoads DEF Services!ConfirmLeave
<1>4. CASE Services!Type
  <2>1. editor'.of = editor.of /\ calls' = calls
    BY <1>4, PagesParts DEF Services!Type, Types
  <2>2. QED
    BY <2>1, SameLoads
<1>5. ASSUME NEW o, NEW s, NEW at, NEW d, o # "load", UNCHANGED editor,
             d = Services!Call(o, s, at) \/ d = [Services!Call(o, s, at) EXCEPT !.own = FALSE],
             Services!Ask(d)
      PROVE  Services!OneLoad'
  <2>1. d.op = o
    BY <1>5 DEF Services!Call
  <2>2. QED
    BY <1>5, <2>1, SameLoads DEF Services!Ask
<1>6. CASE Services!Save
  BY <1>5, <1>6 DEF Services!Save, Services!Ask, Services!window
<1>7. ASSUME NEW s \in Service, NEW kind \in {"toggleRead", "deleteRead", "change"}, Services!ActOn(s, kind)
      PROVE  Services!OneLoad'
  BY <1>5, <1>7 DEF Services!ActOn, Services!Ask, Services!window
<1>8. ASSUME NEW s \in Service, NEW kind \in Services!Imports, Services!Import(s, kind)
      PROVE  Services!OneLoad'
  <2>1. kind # "load"
    BY DEF Services!Imports
  <2>2. QED
    BY <1>5, <1>8, <2>1 DEF Services!Import, Services!Ask, Services!window
<1>9. ASSUME NEW s \in Service, Services!ChangedElsewhere(s) PROVE Services!OneLoad'
  BY <1>9, SameLoads DEF Services!ChangedElsewhere, Services!window
<1>10. ASSUME NEW c \in calls, Services!Serve(c) \/ Services!Fail(c) PROVE Services!OneLoad'
  <2>1. c \in Services!Calls
    BY PagesParts DEF CallInv
  <2>2. PICK phase, reply : calls' = (calls \ {c}) \cup {[c EXCEPT !.phase = phase, !.seen = reply]}
    <3>1. [c EXCEPT !.phase = "failed"] = [c EXCEPT !.phase = "failed", !.seen = c.seen]
      BY <2>1 DEF Services!Calls
    <3>2. QED
      BY <1>10, <3>1 DEF Services!Serve, Services!Fail
  <2>3. [c EXCEPT !.phase = phase, !.seen = reply].op = c.op /\ UNCHANGED editor
    BY <1>10, <2>1 DEF Services!Calls, Services!Serve, Services!Fail, Services!window
  <2>4. QED
    BY <2>2, <2>3, ReplacedLoad
<1>11. ASSUME NEW c \in calls, Services!Answer(c) PROVE Services!OneLoad'
  <2>1. CASE Services!ListAnswered(c) \/ Services!Removed(c) \/ Services!Imported(c)
    <3>1. editor' = editor /\ \A e \in calls' : e.op = "load" => e \in calls
      BY <2>1, ToldLoads
         DEF Services!ListAnswered, Services!Removed, Services!Imported, Services!window
    <3>2. QED
      BY <3>1, SameLoads
  <2>2. CASE Services!LoadAnswered(c)
    BY <2>2 DEF Services!LoadAnswered, Services!OneLoad
  <2>3. CASE Services!ReadAnswered(c)
    <3>1. c \in Services!Calls
      BY PagesParts DEF CallInv
    <3>2. Services!WriteAfter(c).op # "load"
      BY <3>1 DEF Services!WriteAfter, Services!Calls
    <3>3. QED
      BY <2>3, <3>2, SameLoads DEF Services!ReadAnswered, Services!window
  <2>4. CASE Services!ChangeFailed(c)
    <3>1. editor'.of = editor.of /\ calls' = calls \ {c}
      BY <2>4, PagesParts DEF Services!ChangeFailed, Types
    <3>2. QED
      BY <3>1, SameLoads
  <2>5. CASE Services!Saved(c)
    BY <2>5, ToldLoads, ShownLoads DEF Services!Saved
  <2>6. CASE Services!ProviderAdded(c)
    BY <2>6, ToldLoads, GoneToLoads DEF Services!ProviderAdded
  <2>7. QED
    BY <1>11, <2>1, <2>2, <2>3, <2>4, <2>5, <2>6 DEF Services!Answer
<1>12. QED
  BY <1>1, <1>2, <1>3, <1>4, <1>6, <1>7, <1>8, <1>9, <1>10, <1>11 DEF Services!Next

\* Going elsewhere keeps edits that have not been confirmed away.
LEMMA GoToKeepsEdits ==
    ASSUME Services!PagesAssumption, Services!PagesInv, NEW p, NEW cs, Services!GoTo(p, cs), editor.typed
    PROVE  UNCHANGED editor
<1>1. dirty /\ editor.of = page /\ editor.of # Services!None
  BY DEF Services!PagesInv, Services!DirtyMeansUnsaved, Services!WaitsForAnother,
         Services!EditorMatchesPage
<1>2. editor.of \in Service \cup {"create", Services!None}
  BY DEF Services!PagesInv, Services!TypeOK
<1>3. CASE p = page
  BY <1>3 DEF Services!GoTo, Services!Show, Services!Leaves
<1>4. CASE p # page
  <2>1. Services!Editing(page)
    BY <1>1, <1>2, Unlike DEF Services!Editing
  <2>2. QED
    BY <1>1, <1>4, <2>1 DEF Services!GoTo, Services!Leaves
<1>5. QED
  BY <1>3, <1>4

\* The answer of a save is no longer in flight once the list shows.
LEMMA SavedEnds ==
    ASSUME Services!PagesAssumption, NEW c \in calls, Services!Saved(c)
    PROVE  c \notin calls' /\ c.phase = "served" /\ c.op \in Services!ShowsList /\ page' = "list"
<1>1. c.op \in Services!ShowsList /\ c.phase = "served" /\ c.op # "list" /\ page' = "list"
  BY DEF Services!Saved, Services!Show, Services!ShowsList, Services!Saves
<1>2. Services!List(FALSE).op = "list"
  BY NewList
<1>3. Services!Mounted("list") /\ "list" \notin Service
  BY Unlike DEF Services!Mounted, Services!Places
<1>4. calls' \subseteq Services!Refreshed(Services!Superseded(calls \ {c}))
  BY <1>3 DEF Services!Saved, Services!Show, Services!Opened, Services!WithoutLoads
<1>5. c \notin Services!Refreshed(Services!Superseded(calls \ {c}))
  BY <1>1, <1>2 DEF Services!Refreshed, Services!Superseded, Services!WithoutLists
<1>6. QED
  BY <1>1, <1>4, <1>5

LEMMA StepKeepsEdits ==
    ASSUME Services!PagesAssumption, Services!PagesInv, Services!OneLoad, [Services!Next]_(Services!vars),
           editor.typed, ~editor'.typed
    PROVE  Services!EditsGo
<1>1. CASE UNCHANGED editor
  BY <1>1
<1>2. ASSUME NEW p \in Services!Page, Services!Navigate(p) PROVE UNCHANGED editor
  BY <1>2, GoToKeepsEdits DEF Services!Navigate
<1>3. CASE Services!ConfirmLeave
  BY <1>3 DEF Services!ConfirmLeave, Services!Show, Services!EditsGo
<1>4. CASE \/ Services!Render \/ Services!Refresh \/ Services!RefreshSilently
           \/ Services!CoreDown \/ Services!CoreUp \/ Services!KeepEditing
  BY <1>4
     DEF Services!Render, Services!Refresh, Services!RefreshSilently, Services!CoreDown,
         Services!CoreUp, Services!KeepEditing, Services!window
<1>5. CASE Services!Type
  BY <1>5 DEF Services!Type, Services!EditsGo
<1>6. CASE Services!Save
  BY <1>6 DEF Services!Save, Services!Ask, Services!window
<1>7. ASSUME NEW s \in Service, NEW kind, Services!ActOn(s, kind) \/ Services!Import(s, kind) \/ Services!ChangedElsewhere(s)
      PROVE  UNCHANGED editor
  BY <1>7
     DEF Services!ActOn, Services!Import, Services!ChangedElsewhere, Services!Ask,
         Services!window
<1>8. ASSUME NEW c \in calls, Services!Serve(c) \/ Services!Fail(c) PROVE UNCHANGED editor
  BY <1>8 DEF Services!Serve, Services!Fail, Services!window
<1>9. ASSUME NEW c \in calls, Services!Answer(c) PROVE Services!EditsGo
  <2>1. CASE \/ Services!ListAnswered(c) \/ Services!ReadAnswered(c)
             \/ Services!Removed(c) \/ Services!Imported(c)
    BY <2>1
       DEF Services!ListAnswered, Services!ReadAnswered, Services!Removed,
           Services!Imported, Services!window
  <2>2. CASE Services!LoadAnswered(c)
    BY <2>2 DEF Services!LoadAnswered, Services!OneLoad, Services!PagesInv, Services!WaitsForAnother
  <2>3. CASE Services!ProviderAdded(c)
    <3>1. PICK p \in {"list", c.s} : Services!GoTo(p, Services!Superseded(calls \ {c}))
      BY <2>3 DEF Services!ProviderAdded
    <3>2. QED
      BY <3>1, GoToKeepsEdits
  <2>4. CASE Services!ChangeFailed(c)
    BY <2>4 DEF Services!ChangeFailed, Services!EditsGo
  <2>5. CASE Services!Saved(c)
    BY <2>5, SavedEnds DEF Services!EditsGo
  <2>6. QED
    BY <1>9, <2>1, <2>2, <2>3, <2>4, <2>5 DEF Services!Answer
<1>10. QED
  BY <1>1, <1>2, <1>3, <1>4, <1>5, <1>6, <1>7, <1>8, <1>9
     DEF Services!Next, Services!vars, Services!window

-----------------------------------------------------------------------------
\* The routing page.
ValidDocuments == {doc \in Routing!Document : Routing!Valid(doc)}
AutosaveCalls ==
    [kind : {"load", "save"}, phase : {"asked", "served", "failed"}, sent : Routing!Document,
     patch : SUBSET Routing!Setting, unedited : BOOLEAN, result : ValidDocuments]

AutosaveTypeOK ==
    /\ settings \in ValidDocuments /\ baseline \in ValidDocuments /\ draft \in Routing!Document
    /\ routingSaving \in BOOLEAN /\ routingCalls \subseteq AutosaveCalls /\ edits \in Nat

\* What was sent is what the draft added to the baseline, as long as no reading
\* replaces that.
AutosaveOK(c) ==
    /\ routingSaving /\ Routing!Valid(c.sent) /\ c.patch # {}
    /\ c.phase = "served" => \A k \in c.patch : c.result[k] = c.sent[k]
    /\ ~rebased => \A k \in Routing!Setting \ c.patch : c.sent[k] = baseline[k]

AutosaveIInv ==
    /\ AutosaveTypeOK
    /\ routingSaving => \E c \in routingCalls : c.kind = "save"
    /\ \A c \in routingCalls : c.kind = "save" => AutosaveOK(c)
    /\ \A c, d \in routingCalls : c.kind = "save" /\ d.kind = "save" => c = d

-----------------------------------------------------------------------------
\* The setting the step n of an autosave's plan tries.
TriedAt(n) == Keys[((n - 1) % Len(Keys)) + 1]
LEMMA TriedIsSetting ==
    ASSUME Routing!AutosaveAssumption, NEW n \in Nat \ {0}
    PROVE  TriedAt(n) \in Routing!Setting
<1>1. Len(Keys) \in Nat /\ Len(Keys) > 0
  BY DEF Routing!AutosaveAssumption
<1>2. (n - 1) % Len(Keys) \in 0 .. Len(Keys) - 1
  BY <1>1
<1>3. ((n - 1) % Len(Keys)) + 1 \in 1 .. Len(Keys)
  BY <1>1, <1>2
<1> QED
  BY <1>3 DEF Routing!Setting, TriedAt

LEMMA AcceptIsValid ==
    ASSUME NEW doc \in ValidDocuments, NEW want \in Routing!Document, NEW k \in Routing!Setting
    PROVE  Routing!Accept(doc, want, k) \in ValidDocuments
<1>1. [doc EXCEPT ![k] = want[k]] \in Routing!Document
  BY DEF ValidDocuments, Routing!Document
<1> QED
  BY <1>1 DEF Routing!Accept, ValidDocuments

\* The first steps of a plan: every document on the way is valid.
IsPlan(f, n, original, want) ==
    /\ f \in [0 .. n -> ValidDocuments] /\ f[0] = original
    /\ \A i \in 1 .. n : f[i] = Routing!Accept(f[i - 1], want, TriedAt(i))
LEMMA PlanExists ==
    ASSUME Routing!AutosaveAssumption, NEW original \in ValidDocuments, NEW want \in Routing!Document, NEW n \in Nat
    PROVE  \E f : IsPlan(f, n, original, want)
<1> DEFINE Without == {m \in Nat : ~ \E f : IsPlan(f, m, original, want)}
<1>1. SUFFICES ASSUME Without # {} PROVE FALSE
  OBVIOUS
<1>2. PICK m \in Without : \A i \in Without : m <= i
  <2>1. Without \in SUBSET Nat
    OBVIOUS
  <2> HIDE DEF Without
  <2> QED
    BY <1>1, <2>1, LeastExists
<1>3. m # 0
  <2> DEFINE f == [i \in 0 .. 0 |-> original]
  <2>1. IsPlan(f, 0, original, want)
    BY DEF IsPlan
  <2> QED
    BY <1>2, <2>1
<1>4. m - 1 \in Nat /\ m - 1 \notin Without /\ m \in Nat
  BY <1>2, <1>3
<1>5. PICK g : IsPlan(g, m - 1, original, want)
  BY <1>4
<1>6. g[m - 1] \in ValidDocuments
  BY <1>4, <1>5 DEF IsPlan
<1>7. Routing!Accept(g[m - 1], want, TriedAt(m)) \in ValidDocuments
  BY <1>3, <1>4, <1>6, TriedIsSetting, AcceptIsValid
<1> DEFINE last == Routing!Accept(g[m - 1], want, TriedAt(m))
<1> DEFINE f == [i \in 0 .. m |-> IF i = m THEN last ELSE g[i]]
<1>8. f \in [0 .. m -> ValidDocuments] /\ f[0] = original
  <2>1. \A i \in 0 .. m : i = m \/ i \in 0 .. m - 1
    BY <1>4
  <2> HIDE DEF last
  <2> QED
    BY <1>3, <1>4, <1>5, <1>7, <2>1 DEF IsPlan, last
<1>9. \A i \in 1 .. m : f[i] = Routing!Accept(f[i - 1], want, TriedAt(i))
  <2> TAKE i \in 1 .. m
  <2>1. CASE i = m
    <3>1. f[m] = last /\ f[m - 1] = g[m - 1]
      BY <1>3, <1>4
    <3> HIDE DEF f
    <3> QED
      BY <2>1, <3>1
  <2>2. CASE i # m
    <3>1. i \in 1 .. m - 1 /\ f[i] = g[i] /\ f[i - 1] = g[i - 1]
      BY <1>4, <2>2
    <3>2. g[i] = Routing!Accept(g[i - 1], want, TriedAt(i))
      BY <1>5, <3>1 DEF IsPlan
    <3> HIDE DEF f
    <3> QED
      BY <3>1, <3>2
  <2> QED
    BY <2>1, <2>2
<1>10. IsPlan(f, m, original, want)
  <2> HIDE DEF f
  <2> QED
    BY <1>8, <1>9 DEF IsPlan
<1> QED
  BY <1>2, <1>10

\* planAutosave never sends a document that is invalid as a whole.
LEMMA PlanIsValid ==
    ASSUME Routing!AutosaveAssumption, NEW original \in ValidDocuments, NEW want \in Routing!Document
    PROVE  Routing!PlanSent(original, want) \in ValidDocuments
<1> DEFINE passes == Len(Keys) * Len(Keys)
           accept == [doc \in Routing!Document |-> [k \in Routing!Setting |-> Routing!Accept(doc, want, k)]]
           Follows(f) ==
             f = [n \in 0 .. passes |->
                    IF n = 0 THEN original
                    ELSE accept[f[n - 1]][Keys[((n - 1) % Len(Keys)) + 1]]]
           sent == CHOOSE f : Follows(f)
<1>1. passes \in Nat
  BY DEF Routing!AutosaveAssumption
<1>2. PICK g : IsPlan(g, passes, original, want)
  BY <1>1, PlanExists
<1>3. Routing!PlanSent(original, want) = sent[passes]
  BY Zenon DEF Routing!PlanSent
<1>4. \A doc \in Routing!Document, k \in Routing!Setting : accept[doc][k] = Routing!Accept(doc, want, k)
  OBVIOUS
<1> HIDE DEF accept, passes
<1>5. \A n \in 1 .. passes : /\ n - 1 \in 0 .. passes /\ n \in 0 .. passes /\ n # 0
                             /\ TriedAt(n) \in Routing!Setting
  BY <1>1, TriedIsSetting
<1>6. \A n \in 1 .. passes : g[n - 1] \in Routing!Document
  BY <1>2, <1>5 DEF IsPlan, ValidDocuments
<1>7. \A n \in 1 .. passes : g[n] = accept[g[n - 1]][TriedAt(n)]
  BY <1>2, <1>4, <1>5, <1>6 DEF IsPlan
<1>8. Follows(g)
  <2>1. \A n \in 0 .. passes : n = 0 \/ n \in 1 .. passes
    BY <1>1
  <2> QED
    BY <1>2, <1>7, <2>1 DEF IsPlan, TriedAt
<1>9. Follows(sent)
  BY <1>8
<1> HIDE DEF sent
<1>10. sent = [n \in 0 .. passes |-> IF n = 0 THEN original ELSE accept[sent[n - 1]][TriedAt(n)]]
  BY <1>9, Zenon DEF TriedAt
<1> HIDE DEF Follows
<1>11. \A n \in 0 .. passes : sent[n] = g[n]
  <2> DEFINE Apart == {n \in 0 .. passes : sent[n] # g[n]}
  <2>1. SUFFICES ASSUME Apart # {} PROVE FALSE
    OBVIOUS
  <2>2. PICK n \in Apart : \A i \in Apart : n <= i
    <3>1. Apart \in SUBSET Nat
      BY <1>1
    <3> HIDE DEF Apart
    <3> QED
      BY <2>1, <3>1, LeastExists
  <2>3. sent[0] = original /\ g[0] = original
    BY <1>1, <1>2, <1>10 DEF IsPlan
  <2>4. n \in 1 .. passes /\ n - 1 \notin Apart
    BY <1>1, <2>2, <2>3
  <2>5. sent[n - 1] = g[n - 1]
    BY <1>5, <2>4
  <2>6. sent[n] = accept[sent[n - 1]][TriedAt(n)]
    BY <1>5, <1>10, <2>4
  <2> QED
    BY <1>7, <2>2, <2>4, <2>5, <2>6
<1>12. g[passes] \in ValidDocuments /\ passes \in 0 .. passes
  BY <1>1, <1>2 DEF IsPlan
<1> QED
  BY <1>3, <1>11, <1>12

-----------------------------------------------------------------------------
LEMMA AutosaveInit ==
    ASSUME Routing!AutosaveAssumption, Routing!Init
    PROVE  AutosaveIInv
<1>1. settings \in ValidDocuments
  BY DEF Routing!Init, ValidDocuments, Routing!Document
<1>2. AutosaveTypeOK
  BY <1>1 DEF Routing!Init, AutosaveTypeOK, ValidDocuments
<1>3. QED
  BY <1>2 DEF Routing!Init, AutosaveIInv

\* The same autosaves are under way, what is known of them but for unedited.
LEMMA SavesKept ==
    ASSUME AutosaveIInv, settings' \in ValidDocuments, baseline' \in ValidDocuments,
           draft' \in Routing!Document, edits' \in Nat, UNCHANGED routingSaving,
           rebased' \/ UNCHANGED <<baseline, rebased>>,
           routingCalls' \subseteq AutosaveCalls,
           \A c \in routingCalls' : c.kind = "save" =>
             \E d \in routingCalls : /\ d.kind = "save" /\ c.sent = d.sent /\ c.patch = d.patch
                              /\ c.phase = d.phase /\ c.result = d.result,
           \A c, d \in routingCalls' : c.kind = "save" /\ d.kind = "save" => c = d,
           (\E c \in routingCalls : c.kind = "save") => \E c \in routingCalls' : c.kind = "save"
    PROVE  AutosaveIInv'
<1>1. AutosaveTypeOK'
  BY DEF AutosaveIInv, AutosaveTypeOK
<1>2. ASSUME NEW c \in routingCalls', c.kind = "save"
      PROVE  AutosaveOK(c)'
  <2>1. PICK d \in routingCalls : /\ d.kind = "save" /\ c.sent = d.sent /\ c.patch = d.patch
                           /\ c.phase = d.phase /\ c.result = d.result
    BY <1>2
  <2>2. AutosaveOK(d)
    BY <2>1 DEF AutosaveIInv
  <2>3. QED
    BY <2>1, <2>2 DEF AutosaveOK
<1>3. QED
  BY <1>1, <1>2 DEF AutosaveIInv

LEMMA LoadIsCall ==
    ASSUME AutosaveIInv
    PROVE  Routing!Load \in AutosaveCalls /\ Routing!Load.kind = "load"
BY DEF AutosaveIInv, AutosaveTypeOK, ValidDocuments, Routing!Load, AutosaveCalls

\* A read is begun or given up, or the user asks again.
LEMMA ReadingStep ==
    ASSUME AutosaveIInv,
           \/ Routing!BecomeReady \/ Routing!Reload \/ Routing!GoDown \/ Routing!LeaveField \/ Routing!Retry
    PROVE  AutosaveIInv'
<1>1. UNCHANGED <<settings, draft, baseline, routingSaving, rebased, edits>>
  BY DEF Routing!BecomeReady, Routing!Reload, Routing!GoDown, Routing!LeaveField, Routing!Retry,
         Routing!page
<1>2. /\ \A c \in routingCalls' : c \in routingCalls \/ c = Routing!Load
      /\ \A c \in routingCalls : c.kind = "save" => c \in routingCalls'
  BY DEF Routing!BecomeReady, Routing!Reload, Routing!GoDown, Routing!LeaveField, Routing!Retry,
         Routing!Read, Routing!WithoutLoads
<1>3. routingCalls' \subseteq AutosaveCalls
  BY <1>2, LoadIsCall DEF AutosaveIInv, AutosaveTypeOK
<1>4. \A c \in routingCalls' : c.kind = "save" => c \in routingCalls
  BY <1>2, LoadIsCall
<1>5. \A c, d \in routingCalls' : c.kind = "save" /\ d.kind = "save" => c = d
  BY <1>4 DEF AutosaveIInv
<1>6. /\ settings' \in ValidDocuments /\ baseline' \in ValidDocuments
      /\ draft' \in Routing!Document
      /\ edits' \in Nat
  BY <1>1 DEF AutosaveIInv, AutosaveTypeOK
<1>7. QED
  BY <1>1, <1>2, <1>3, <1>4, <1>5, <1>6, SavesKept

\* What an edit leaves of the calls cs.
LEMMA EditedCalls ==
    ASSUME AutosaveIInv, NEW cs \in SUBSET routingCalls
    PROVE  /\ Routing!Edited(cs) \subseteq AutosaveCalls
           /\ \A c \in Routing!Edited(cs) : \E d \in cs :
                /\ c.kind = d.kind /\ c.sent = d.sent /\ c.patch = d.patch
                /\ c.phase = d.phase /\ c.result = d.result
           /\ \A d \in cs : \E c \in Routing!Edited(cs) : c.kind = d.kind
           /\ \A c, d \in Routing!Edited(cs) : c.kind = "save" /\ d.kind = "save" => c = d
<1>1. \A d \in cs : /\ d \in AutosaveCalls
                    /\ [d EXCEPT !.unedited = FALSE] \in Routing!Edited(cs)
  BY DEF AutosaveIInv, AutosaveTypeOK, Routing!Edited
<1>2. \A c \in Routing!Edited(cs) : \E d \in cs : c = [d EXCEPT !.unedited = FALSE]
  BY DEF Routing!Edited
<1>3. ASSUME NEW d \in cs
      PROVE  /\ [d EXCEPT !.unedited = FALSE] \in AutosaveCalls
             /\ [d EXCEPT !.unedited = FALSE].kind = d.kind
             /\ [d EXCEPT !.unedited = FALSE].sent = d.sent
             /\ [d EXCEPT !.unedited = FALSE].patch = d.patch
             /\ [d EXCEPT !.unedited = FALSE].phase = d.phase
             /\ [d EXCEPT !.unedited = FALSE].result = d.result
  BY <1>1 DEF AutosaveCalls
<1>4. ASSUME NEW c \in Routing!Edited(cs), NEW d \in Routing!Edited(cs), c.kind = "save", d.kind = "save"
      PROVE  c = d
  <2>1. PICK e \in cs : c = [e EXCEPT !.unedited = FALSE]
    BY <1>2
  <2>2. PICK f \in cs : d = [f EXCEPT !.unedited = FALSE]
    BY <1>2
  <2>3. e.kind = "save" /\ f.kind = "save"
    BY <1>3, <1>4, <2>1, <2>2
  <2>4. e = f
    BY <2>3 DEF AutosaveIInv
  <2>5. QED
    BY <2>1, <2>2, <2>4
<1>5. ASSUME NEW c \in Routing!Edited(cs)
      PROVE  /\ c \in AutosaveCalls
             /\ \E d \in cs : /\ c.kind = d.kind /\ c.sent = d.sent /\ c.patch = d.patch
                             /\ c.phase = d.phase /\ c.result = d.result
  <2>1. PICK d \in cs : c = [d EXCEPT !.unedited = FALSE]
    BY <1>2
  <2>2. QED
    BY <1>3, <2>1
<1>6. ASSUME NEW d \in cs
      PROVE  \E c \in Routing!Edited(cs) : c.kind = d.kind
  BY <1>1, <1>3
<1>7. QED
  BY <1>4, <1>5, <1>6

LEMMA EditStep ==
    ASSUME AutosaveIInv, NEW k \in Routing!Setting, NEW v \in Values \cup {Incomplete}, Routing!Edit(k, v)
    PROVE  AutosaveIInv'
<1>1. /\ UNCHANGED <<settings, baseline, routingSaving, rebased>> /\ edits' = edits + 1
      /\ draft' = [draft EXCEPT ![k] = v] /\ routingCalls' = Routing!Edited(routingCalls)
  BY DEF Routing!Edit
<1>2. draft' \in Routing!Document /\ edits' \in Nat
  BY <1>1 DEF AutosaveIInv, AutosaveTypeOK, Routing!Document
<1>3. settings' \in ValidDocuments /\ baseline' \in ValidDocuments
  BY <1>1 DEF AutosaveIInv, AutosaveTypeOK
<1>4. \A c, d \in routingCalls' : c.kind = "save" /\ d.kind = "save" => c = d
  BY <1>1, EditedCalls
<1>5. QED
  BY <1>1, <1>2, <1>3, <1>4, EditedCalls, SavesKept

LEMMA ReadingAnsweredStep ==
    ASSUME AutosaveIInv, NEW c \in routingCalls, Routing!Answer(c), Routing!LoadAnswered(c)
    PROVE  AutosaveIInv'
<1>1. UNCHANGED <<settings, routingSaving, edits>> /\ c.kind = "load"
  BY DEF Routing!Answer, Routing!LoadAnswered
<1>2. c.result \in ValidDocuments /\ routingCalls \subseteq AutosaveCalls
  BY DEF AutosaveIInv, AutosaveTypeOK, AutosaveCalls
<1>3. \/ UNCHANGED <<draft, baseline, rebased>>
      \/ draft' = c.result /\ baseline' = c.result /\ rebased' = TRUE
  BY DEF Routing!LoadAnswered, Routing!Taken
<1>4. \/ routingCalls' = routingCalls \ {c}
      \/ routingCalls' = Routing!Edited(routingCalls \ {c})
  BY DEF Routing!LoadAnswered
<1>5. /\ settings' \in ValidDocuments /\ baseline' \in ValidDocuments
      /\ draft' \in Routing!Document
      /\ edits' \in Nat
  BY <1>1, <1>2, <1>3 DEF AutosaveIInv, AutosaveTypeOK, ValidDocuments
<1>6. /\ routingCalls' \subseteq AutosaveCalls
      /\ \A e \in routingCalls' : e.kind = "save" =>
           \E d \in routingCalls : /\ d.kind = "save" /\ e.sent = d.sent /\ e.patch = d.patch
                            /\ e.phase = d.phase /\ e.result = d.result
      /\ \A e, d \in routingCalls' : e.kind = "save" /\ d.kind = "save" => e = d
      /\ (\E e \in routingCalls : e.kind = "save") => \E e \in routingCalls' : e.kind = "save"
  <2>1. CASE routingCalls' = routingCalls \ {c}
    BY <1>1, <1>2, <2>1 DEF AutosaveIInv
  <2>2. CASE routingCalls' = Routing!Edited(routingCalls \ {c})
    <3>1. PICK cs \in SUBSET routingCalls : cs = routingCalls \ {c}
      OBVIOUS
    <3>2. (\E e \in routingCalls : e.kind = "save") => \E e \in cs : e.kind = "save"
      BY <1>1, <3>1
    <3>3. routingCalls' = Routing!Edited(cs)
      BY <2>2, <3>1
    <3>4. QED
      BY <3>2, <3>3, EditedCalls
  <2>3. QED
    BY <1>4, <2>1, <2>2
<1>7. QED
  BY <1>1, <1>3, <1>5, <1>6, SavesKept

LEMMA AutosaveStep ==
    ASSUME Routing!AutosaveAssumption, AutosaveIInv, Routing!Autosave
    PROVE  AutosaveIInv'
<1>1. /\ UNCHANGED <<settings, draft, baseline, edits>> /\ rebased' = FALSE
      /\ routingSaving' = TRUE /\ ~routingSaving
      /\ Routing!Sendable # {}
      /\ routingCalls' = Routing!WithoutLoads(routingCalls) \cup {Routing!Save(Routing!PlanSent(baseline, draft), Routing!Sendable)}
  BY DEF Routing!Autosave, Routing!page
<1>2. PICK sent \in ValidDocuments : sent = Routing!PlanSent(baseline, draft)
  BY PlanIsValid DEF AutosaveIInv, AutosaveTypeOK
<1>3. PICK patch \in SUBSET Routing!Setting : patch = Routing!Sendable
  BY DEF Routing!Sendable, Routing!Patch
<1>4. \A k \in Routing!Setting \ patch : sent[k] = baseline[k]
  BY <1>2, <1>3 DEF Routing!Sendable, Routing!Patch
<1>5. PICK save \in AutosaveCalls :
        /\ save = Routing!Save(sent, patch)
        /\ save.kind = "save" /\ save.sent = sent /\ save.patch = patch /\ save.phase = "asked"
  <2>1. sent \in Routing!Document /\ settings \in Routing!Document /\ settings \in ValidDocuments
    BY DEF AutosaveIInv, AutosaveTypeOK, ValidDocuments
  <2>2. PICK l \in AutosaveCalls : l = Routing!Load /\ l.phase = "asked"
    <3>1. Routing!Load \in AutosaveCalls /\ Routing!Load.phase = "asked"
      BY <2>1 DEF Routing!Load, AutosaveCalls
    <3>2. QED
      BY <3>1
  <2>3. PICK m \in AutosaveCalls :
          m = [l EXCEPT !.kind = "save"] /\ m.kind = "save" /\ m.phase = "asked"
    <3>1. /\ [l EXCEPT !.kind = "save"] \in AutosaveCalls
          /\ [l EXCEPT !.kind = "save"].kind = "save"
          /\ [l EXCEPT !.kind = "save"].phase = "asked"
      BY <2>2 DEF AutosaveCalls
    <3>2. QED
      BY <3>1, Zenon
  <2>4. PICK n \in AutosaveCalls :
          n = [m EXCEPT !.sent = sent] /\ n.kind = "save" /\ n.phase = "asked" /\ n.sent = sent
    <3>1. /\ [m EXCEPT !.sent = sent] \in AutosaveCalls
          /\ [m EXCEPT !.sent = sent].kind = "save" /\ [m EXCEPT !.sent = sent].phase = "asked"
          /\ [m EXCEPT !.sent = sent].sent = sent
      BY <2>1, <2>3 DEF AutosaveCalls
    <3>2. QED
      BY <3>1, Zenon
  <2>5. PICK o \in AutosaveCalls :
          /\ o = [n EXCEPT !.patch = patch]
          /\ o.kind = "save" /\ o.phase = "asked" /\ o.sent = sent /\ o.patch = patch
    <3>1. /\ [n EXCEPT !.patch = patch] \in AutosaveCalls
          /\ [n EXCEPT !.patch = patch].kind = "save"
          /\ [n EXCEPT !.patch = patch].phase = "asked"
          /\ [n EXCEPT !.patch = patch].sent = sent /\ [n EXCEPT !.patch = patch].patch = patch
      BY <2>4 DEF AutosaveCalls
    <3>2. QED
      BY <3>1, Zenon
  <2>6. Routing!Save(sent, patch) = [l EXCEPT !.kind = "save", !.sent = sent, !.patch = patch]
    BY <2>2 DEF Routing!Save
  <2>7. Routing!Save(sent, patch) = o
    BY <2>2, <2>3, <2>4, <2>5, <2>6 DEF AutosaveCalls
  <2>8. QED
    BY <2>5, <2>7
<1>6. routingCalls' = {save}
  <2>1. Routing!WithoutLoads(routingCalls) = {}
    BY <1>1 DEF AutosaveIInv, AutosaveTypeOK, AutosaveCalls, AutosaveOK, Routing!WithoutLoads
  <2>2. QED
    BY <1>1, <1>2, <1>3, <1>5, <2>1
<1>7. AutosaveTypeOK'
  BY <1>1, <1>6 DEF AutosaveIInv, AutosaveTypeOK
<1>8. Routing!Valid(sent)
  BY DEF ValidDocuments
<1>9. AutosaveOK(save)'
  BY <1>1, <1>3, <1>4, <1>5, <1>8 DEF AutosaveOK
<1>10. QED
  BY <1>5, <1>6, <1>7, <1>9 DEF AutosaveIInv

LEMMA SaveAnsweredStep ==
    ASSUME AutosaveIInv, NEW c \in routingCalls, Routing!Answer(c), Routing!SaveAnswered(c)
    PROVE  AutosaveIInv'
<1>1. /\ UNCHANGED <<settings, edits>> /\ c.kind = "save" /\ routingSaving' = FALSE
      /\ routingCalls' = routingCalls \ {c}
      /\ UNCHANGED <<draft, baseline>> \/ (baseline' = c.result /\ draft' = Routing!Merged(c))
  BY DEF Routing!Answer, Routing!SaveAnswered, Routing!SavingEnds
<1>2. c.result \in ValidDocuments /\ c.result \in Routing!Document /\ draft \in Routing!Document
  BY DEF AutosaveIInv, AutosaveTypeOK, AutosaveCalls, ValidDocuments
<1>3. Routing!Merged(c) \in Routing!Document
  BY <1>2 DEF Routing!Merged, Routing!Document
<1>4. AutosaveTypeOK'
  BY <1>1, <1>2, <1>3 DEF AutosaveIInv, AutosaveTypeOK
<1>5. \A d \in routingCalls' : d.kind # "save"
  BY <1>1 DEF AutosaveIInv
<1>6. QED
  BY <1>1, <1>4, <1>5 DEF AutosaveIInv

\* A call gets its answer from Core.
LEMMA CallReplaced ==
    ASSUME AutosaveIInv, NEW c \in routingCalls, NEW d \in AutosaveCalls, routingCalls' = (routingCalls \ {c}) \cup {d},
           d.kind = c.kind, d.sent = c.sent, d.patch = c.patch,
           d.kind = "save" /\ d.phase = "served" => \A k \in d.patch : d.result[k] = d.sent[k],
           settings' \in ValidDocuments, UNCHANGED <<draft, baseline, routingSaving, rebased, edits>>
    PROVE  AutosaveIInv'
<1>1. AutosaveTypeOK'
  BY DEF AutosaveIInv, AutosaveTypeOK
<1>2. \A e \in routingCalls' : e = d \/ (e \in routingCalls /\ e # c)
  OBVIOUS
<1>3. ASSUME NEW e \in routingCalls', e.kind = "save"
      PROVE  AutosaveOK(e)'
  <2>1. CASE e = d
    <3>1. AutosaveOK(c)
      BY <1>3, <2>1 DEF AutosaveIInv
    <3>2. QED
      BY <1>3, <2>1, <3>1 DEF AutosaveOK
  <2>2. CASE e \in routingCalls
    <3>1. AutosaveOK(e)
      BY <1>3, <2>2 DEF AutosaveIInv
    <3>2. QED
      BY <3>1 DEF AutosaveOK
  <2>3. QED
    BY <1>2, <2>1, <2>2
<1>4. \A e, f \in routingCalls' : e.kind = "save" /\ f.kind = "save" => e = f
  BY <1>2 DEF AutosaveIInv
<1>5. routingSaving' => \E e \in routingCalls' : e.kind = "save"
  BY DEF AutosaveIInv
<1>6. QED
  BY <1>1, <1>3, <1>4, <1>5 DEF AutosaveIInv

LEMMA CallServedStep ==
    ASSUME AutosaveIInv, NEW c \in routingCalls, Routing!Serve(c)
    PROVE  AutosaveIInv'
<1>1. UNCHANGED <<draft, baseline, routingSaving, rebased, edits>>
  BY DEF Routing!Serve, Routing!page
<1>2. c \in AutosaveCalls /\ settings \in ValidDocuments /\ settings \in Routing!Document
  BY DEF AutosaveIInv, AutosaveTypeOK, ValidDocuments
<1>3. CASE Routing!Valid(Routing!Patched(c))
  <2> DEFINE d == [[c EXCEPT !.phase = "served"] EXCEPT !.result = settings']
  <2>1. settings' = Routing!Patched(c)
    BY <1>3 DEF Routing!Serve
  <2>2. Routing!Patched(c) \in Routing!Document /\ \A k \in c.patch : Routing!Patched(c)[k] = c.sent[k]
    BY <1>2 DEF Routing!Patched, Routing!Document, AutosaveCalls
  <2>3. settings' \in ValidDocuments
    BY <1>3, <2>1, <2>2 DEF ValidDocuments
  <2>4. routingCalls' = (routingCalls \ {c}) \cup {d}
    BY <1>2, <1>3 DEF Routing!Serve, AutosaveCalls
  <2>5. /\ d \in AutosaveCalls /\ d.kind = c.kind /\ d.sent = c.sent /\ d.patch = c.patch
        /\ d.result = settings'
    BY <1>2, <2>3 DEF AutosaveCalls
  <2> HIDE DEF d
  <2>6. QED
    BY <1>1, <2>1, <2>2, <2>3, <2>4, <2>5, CallReplaced
<1>4. CASE ~Routing!Valid(Routing!Patched(c))
  <2> DEFINE d == [c EXCEPT !.phase = "failed"]
  <2>1. UNCHANGED settings /\ routingCalls' = (routingCalls \ {c}) \cup {d}
    BY <1>4 DEF Routing!Serve
  <2>2. /\ d \in AutosaveCalls /\ d.kind = c.kind /\ d.sent = c.sent /\ d.patch = c.patch
        /\ d.phase = "failed"
    BY <1>2 DEF AutosaveCalls
  <2> HIDE DEF d
  <2>3. QED
    BY <1>1, <1>2, <2>1, <2>2, CallReplaced
<1>5. QED
  BY <1>3, <1>4

LEMMA CallFailsStep ==
    ASSUME AutosaveIInv, NEW c \in routingCalls, Routing!Fail(c)
    PROVE  AutosaveIInv'
<1> DEFINE d == [c EXCEPT !.phase = "failed"]
<1>1. /\ UNCHANGED <<settings, draft, baseline, routingSaving, rebased, edits>>
      /\ routingCalls' = (routingCalls \ {c}) \cup {d}
  BY DEF Routing!Fail, Routing!page
<1>2. c \in AutosaveCalls /\ settings \in ValidDocuments
  BY DEF AutosaveIInv, AutosaveTypeOK
<1>3. /\ d \in AutosaveCalls /\ d.kind = c.kind /\ d.sent = c.sent /\ d.patch = c.patch
      /\ d.phase = "failed"
  BY <1>2 DEF AutosaveCalls
<1> HIDE DEF d
<1>4. QED
  BY <1>1, <1>2, <1>3, CallReplaced

LEMMA AutosaveNext ==
    ASSUME Routing!AutosaveAssumption, AutosaveIInv, Routing!Next
    PROVE  AutosaveIInv'
BY ReadingStep, EditStep, AutosaveStep, ReadingAnsweredStep, SaveAnsweredStep, CallServedStep,
   CallFailsStep DEF Routing!Next, Routing!Answer

\* Nothing of the page changes.
LEMMA AutosaveStutter ==
    ASSUME AutosaveIInv, UNCHANGED Routing!vars
    PROVE  AutosaveIInv'
BY DEF Routing!vars, Routing!page, AutosaveIInv, AutosaveTypeOK, AutosaveOK

LEMMA AutosaveImplies ==
    ASSUME AutosaveIInv
    PROVE  Routing!AutosaveInv
<1>1. /\ settings \in Routing!Document /\ draft \in Routing!Document
      /\ baseline \in Routing!Document
      /\ Routing!Valid(settings) /\ Routing!Valid(baseline)
  BY DEF AutosaveIInv, AutosaveTypeOK, ValidDocuments
<1>2. QED
  BY <1>1 DEF AutosaveIInv, AutosaveOK, Routing!AutosaveInv

\* An edit that no save has acknowledged survives every step but the user's.
Keeps(k) ==
    loaded /\ draft[k] # baseline[k] /\ draft'[k] # draft[k] /\ edits' = edits => routingSaving /\ rebased
LEMMA AutosaveKeeps ==
    ASSUME AutosaveIInv, [Routing!Next]_(Routing!vars), NEW k \in Routing!Setting
    PROVE  Keeps(k)
<1>1. SUFFICES ASSUME loaded, draft[k] # baseline[k], draft'[k] # draft[k], edits' = edits
               PROVE  routingSaving /\ rebased
  BY DEF Keeps
<1>2. Routing!Dirty
  BY <1>1 DEF Routing!Dirty
<1>3. edits + 1 # edits
  BY DEF AutosaveIInv, AutosaveTypeOK
<1>4. PICK c \in routingCalls : Routing!SaveAnswered(c)
  BY <1>1, <1>2, <1>3
     DEF Routing!Next, Routing!vars, Routing!page, Routing!BecomeReady, Routing!GoDown,
         Routing!Reload, Routing!LeaveField, Routing!Retry, Routing!Autosave, Routing!Edit, Routing!Serve,
         Routing!Fail, Routing!Answer, Routing!LoadAnswered, Routing!Taken
<1>5. /\ c.kind = "save" /\ c.phase = "served" /\ draft' = Routing!Merged(c)
  BY <1>1, <1>4 DEF Routing!SaveAnswered, AutosaveIInv, AutosaveTypeOK, AutosaveCalls
<1>6. draft[k] = c.sent[k] /\ draft'[k] = c.result[k]
  BY <1>1, <1>5 DEF Routing!Merged
<1>7. AutosaveOK(c)
  BY <1>5 DEF AutosaveIInv
<1>8. QED
  BY <1>1, <1>5, <1>6, <1>7 DEF AutosaveOK

-----------------------------------------------------------------------------
\* The models on the safety page.
Installation == [status : {"none", "downloading", "stopped", "ready"}, changes : Nat]
Installations == [Model -> Installation]
LibraryPolls ==
    [phase : {"off", "timer", "reading", "over"}, ids : SUBSET Model, current : BOOLEAN,
     answers : Installations]
LibraryOps ==
    [kind : {"none", "install", "pause", "resume", "remove"},
     model : Model \cup {CHOOSE m \in Model : TRUE},
     phase : {"idle", "sent", "done", "refused"}, answer : Installation]

LibraryTypeOK ==
    /\ models \in Installations /\ rows \in Installations /\ ops \in Nat
    /\ load \in [phase : {"idle", "sent", "read", "failed"}, cached : BOOLEAN, hidden : BOOLEAN,
                 list : Installations]
    /\ op \in LibraryOps
    /\ (op.phase # "idle" => op.model \in Model /\ op.kind # "none" /\ ops > 0)
    /\ poll \in LibraryPolls
    /\ \A call \in lost : call.model \in Model

PollOK ==
    /\ poll.ids = Safety!Downloading(rows) /\ (poll.phase = "off" <=> poll.ids = {})
    /\ poll.phase # "off" /\ ~poll.current => ops > 0

\* Nothing on the page or on its way to it is newer than Core.
Older ==
    \A m \in Model :
        /\ rows[m].changes <= models[m].changes
        /\ load.phase = "read" => load.list[m].changes <= models[m].changes
        /\ poll.phase = "reading" /\ poll.answers[m].status # "none" =>
             poll.answers[m].changes <= models[m].changes

AnswerOK == op.phase = "done" => op.answer.changes <= models[op.model].changes

\* The operator acts on a list that has been read, on a model of which nothing
\* else is asked: a removal or a pause stops what changes it, and for a download
\* to be begun none is under way.
Fetches == op.kind \in {"install", "resume"}
OpOK ==
    /\ ~left => lost = {}
    /\ op.phase # "idle" =>
         load.phase = "idle" /\ (Fetches => rows[op.model].status # "downloading")
    /\ op.phase = "done" /\ ~left =>
         /\ rows[op.model].changes <= op.answer.changes
         /\ IF Fetches THEN op.answer.status = "downloading"
            ELSE op.answer = models[op.model] /\ op.answer.status # "downloading"

\* What a poll has been told is no older than the row, and than the list that
\* is read meanwhile if that still shows a download.
IsTold(m) ==
    poll.phase = "reading" /\ poll.current /\ m \in poll.ids /\ poll.answers[m].status # "none"
ToldOK ==
    ~left => \A m \in Model : IsTold(m) =>
        /\ rows[m].changes <= poll.answers[m].changes
        /\ load.phase = "sent" /\ models[m].status = "downloading" =>
             models[m].changes <= poll.answers[m].changes
        /\ load.phase = "read" /\ load.list[m].status = "downloading" =>
             load.list[m].changes <= poll.answers[m].changes

LibraryIInv == LibraryTypeOK /\ PollOK /\ Older /\ AnswerOK /\ (~Early => OpOK /\ ToldOK)

-----------------------------------------------------------------------------
LEMMA LibraryNothing ==
    /\ Safety!None \in Installation /\ Safety!NoCall \in LibraryOps
    /\ Safety!NoCall.phase = "idle" /\ Safety!NoCall.kind = "none"
    /\ [m \in Model |-> Safety!None] \in Installations
    /\ Safety!Off \in LibraryPolls /\ Safety!Off.phase = "off" /\ Safety!Off.ids = {}
    /\ ~Safety!Off.current
<1>1. Safety!None \in Installation
  BY DEF Safety!None, Installation
<1>2. Safety!NoCall \in LibraryOps /\ Safety!NoCall.phase = "idle" /\ Safety!NoCall.kind = "none"
  BY <1>1 DEF Safety!NoCall, LibraryOps
<1>3. [m \in Model |-> Safety!None] \in Installations
  BY <1>1 DEF Installations
<1>4. /\ Safety!Off \in LibraryPolls /\ Safety!Off.phase = "off" /\ Safety!Off.ids = {}
      /\ ~Safety!Off.current
  BY <1>3 DEF Safety!Off, LibraryPolls
<1>5. QED
  BY <1>1, <1>2, <1>3, <1>4

LEMMA LibraryLoads ==
    ASSUME NEW c \in BOOLEAN, NEW h \in BOOLEAN
    PROVE  [phase |-> "sent", cached |-> c, hidden |-> h, list |-> [m \in Model |-> Safety!None]]
             \in [phase : {"idle", "sent", "read", "failed"}, cached : BOOLEAN, hidden : BOOLEAN,
                  list : Installations]
BY LibraryNothing

\* What the page asks for once it shows another list.
LEMMA ShownPoll ==
    ASSUME NEW listed \in Installations, NEW before \in LibraryPolls,
           before.phase = "off" <=> before.ids = {}
    PROVE  /\ Safety!Repolled(listed, before) \in LibraryPolls
           /\ Safety!Repolled(listed, before).ids = Safety!Downloading(listed)
           /\ Safety!Repolled(listed, before).phase = "off" <=> Safety!Downloading(listed) = {}
           /\ \/ Safety!Repolled(listed, before) = before
              \/ /\ Safety!Repolled(listed, before).phase = "timer" /\ Safety!Repolled(listed, before).current
              \/ Safety!Repolled(listed, before).phase = "off"
<1> DEFINE ids == Safety!Downloading(listed)
<1>1. ids \in SUBSET Model
  BY DEF Safety!Downloading
<1> HIDE DEF ids
<1>2. PICK next \in LibraryPolls :
        /\ next = [Safety!Off EXCEPT !.phase = "timer", !.ids = ids, !.current = TRUE]
        /\ next.phase = "timer" /\ next.ids = ids /\ next.current
  <2> DEFINE a == [Safety!Off EXCEPT !.phase = "timer"]
  <2> DEFINE b == [a EXCEPT !.ids = ids]
  <2> DEFINE c == [b EXCEPT !.current = TRUE]
  <2>1. a \in LibraryPolls /\ a.phase = "timer"
    BY LibraryNothing DEF LibraryPolls
  <2> HIDE DEF a
  <2>2. b \in LibraryPolls /\ b.phase = "timer" /\ b.ids = ids
    BY <1>1, <2>1 DEF LibraryPolls
  <2> HIDE DEF b
  <2>3. c \in LibraryPolls /\ c.phase = "timer" /\ c.ids = ids /\ c.current
    BY <2>2 DEF LibraryPolls
  <2>4. c = [Safety!Off EXCEPT !.phase = "timer", !.ids = ids, !.current = TRUE]
    BY LibraryNothing DEF a, b, LibraryPolls
  <2> HIDE DEF c
  <2>5. QED
    BY <2>3, <2>4
<1>3. Safety!Repolled(listed, before) = IF ids = before.ids THEN before
                               ELSE IF ids = {} THEN Safety!Off ELSE next
  BY <1>2 DEF Safety!Repolled, ids
<1>4. QED
  BY <1>2, <1>3, LibraryNothing DEF ids

\* A step that shows a list, and may change the load and the call, but not Core.
LEMMA ShowStep ==
    ASSUME LibraryIInv, NEW listed \in Installations, NEW before \in LibraryPolls,
           before.phase = "off" <=> before.ids = {},
           rows' = listed, poll' = Safety!Repolled(listed, before),
           before.phase # "off" /\ ~before.current => ops' > 0, ops' \in Nat,
           UNCHANGED models,
           load' \in [phase : {"idle", "sent", "read", "failed"}, cached : BOOLEAN, hidden : BOOLEAN,
                      list : Installations],
           op' \in LibraryOps, op'.phase # "idle" => op'.model \in Model /\ op'.kind # "none" /\ ops' > 0,
           \A call \in lost' : call.model \in Model,
           \A m \in Model : listed[m].changes <= models[m].changes,
           load'.phase = "read" => load'.list = load.list /\ load.phase = "read",
           before.phase = "reading" => before.answers = poll.answers /\ poll.phase = "reading"
    PROVE  LibraryTypeOK' /\ PollOK' /\ Older'
<1>1. /\ poll' \in LibraryPolls /\ poll'.ids = Safety!Downloading(listed)
      /\ poll'.phase = "off" <=> Safety!Downloading(listed) = {}
      /\ poll' = before \/ (poll'.phase = "timer" /\ poll'.current) \/ poll'.phase = "off"
  BY ShownPoll
<1>2. LibraryTypeOK'
  BY <1>1 DEF LibraryIInv, LibraryTypeOK
<1>3. PollOK'
  BY <1>1 DEF PollOK
<1>4. Older'
  BY <1>1 DEF LibraryIInv, Older
<1>5. QED
  BY <1>2, <1>3, <1>4

LEMMA LibraryInit ==
    ASSUME Safety!LibraryAssumption, Safety!Init
    PROVE  LibraryIInv
<1>1. /\ rows = [m \in Model |-> Safety!None] /\ op = Safety!NoCall /\ lost = {}
      /\ poll = Safety!Off /\ ops = 0
  BY DEF Safety!Init
<1>2. models \in Installations
  BY DEF Safety!Init, Installations, Installation, Safety!None
<1>3. /\ load = [phase |-> "sent", cached |-> FALSE, hidden |-> FALSE, list |-> [m \in Model |-> Safety!None]]
      /\ load.phase = "sent"
  BY DEF Safety!Init, Safety!NoLoad
<1>4. LibraryTypeOK
  BY <1>1, <1>2, <1>3, LibraryNothing, LibraryLoads DEF LibraryTypeOK
<1>5. PollOK
  BY <1>1, LibraryNothing DEF PollOK, Safety!Downloading, Safety!None
<1>6. Older
  BY <1>1, <1>2, <1>3, LibraryNothing DEF Older, Safety!None, Installations, Installation
<1>7. AnswerOK /\ OpOK /\ ToldOK
  BY <1>1, LibraryNothing DEF AnswerOK, OpOK, ToldOK, IsTold
<1>8. QED
  BY <1>4, <1>5, <1>6, <1>7 DEF LibraryIInv

-----------------------------------------------------------------------------
\* What is on its way to the page is no longer looked at, or not yet.
LEMMA VisitStep ==
    ASSUME LibraryIInv, Safety!Visit
    PROVE  LibraryIInv'
<1>1. /\ UNCHANGED <<models, rows, ops>> /\ op' = Safety!NoCall
      /\ poll' = Safety!Repolled(rows, Safety!Off)
      /\ lost' = IF op.phase = "sent" THEN lost \cup {[kind |-> op.kind, model |-> op.model]} ELSE lost
      /\ left' = (left \/ op.phase = "sent")
  BY DEF Safety!Visit
<1>2. load.cached \in BOOLEAN /\ rows \in Installations /\ ops \in Nat
  BY DEF LibraryIInv, LibraryTypeOK
<1>3. /\ load' = [phase |-> "sent", cached |-> load.cached, hidden |-> FALSE,
                  list |-> [m \in Model |-> Safety!None]]
      /\ load'.phase = "sent"
  BY DEF Safety!Visit, Safety!NoLoad
<1>4. load' \in [phase : {"idle", "sent", "read", "failed"}, cached : BOOLEAN, hidden : BOOLEAN,
                 list : Installations]
  BY <1>2, <1>3, LibraryLoads
<1>5. \A call \in lost' : call.model \in Model
  BY <1>1 DEF LibraryIInv, LibraryTypeOK
<1>6. /\ poll'.phase = "off" \/ poll'.phase = "timer"
  BY <1>1, <1>2, ShownPoll, LibraryNothing
<1>7. LibraryTypeOK' /\ PollOK' /\ Older'
  BY <1>1, <1>2, <1>3, <1>4, <1>5, LibraryNothing, ShowStep DEF LibraryIInv, Older
<1>8. AnswerOK' /\ (~Early => OpOK')
  BY <1>1, LibraryNothing DEF LibraryIInv, OpOK, AnswerOK
<1>9. ToldOK'
  BY <1>6 DEF ToldOK, IsTold
<1>10. QED
  BY <1>7, <1>8, <1>9 DEF LibraryIInv

LEMMA RefreshStep ==
    ASSUME LibraryIInv, Safety!Refresh
    PROVE  LibraryIInv'
<1> DEFINE none == [m \in Model |-> Safety!None]
<1>1. /\ UNCHANGED <<models, op, lost, left, ops>> /\ rows' = none
      /\ poll' = Safety!Repolled(none, Safety!Off)
      /\ op = Safety!NoCall
  BY DEF Safety!Refresh, Safety!Show
<1>2. none \in Installations /\ ops \in Nat /\ \A m \in Model : none[m].changes <= models[m].changes
  BY LibraryNothing DEF LibraryIInv, LibraryTypeOK, Installations, Installation, Safety!None
<1>3. /\ load' = [phase |-> "sent", cached |-> load.cached, hidden |-> TRUE, list |-> none]
      /\ load'.phase = "sent" /\ load.cached \in BOOLEAN
  BY DEF Safety!Refresh, Safety!NoLoad, LibraryIInv, LibraryTypeOK
<1>4. load' \in [phase : {"idle", "sent", "read", "failed"}, cached : BOOLEAN, hidden : BOOLEAN,
                 list : Installations]
  BY <1>3, LibraryLoads
<1>5. \A call \in lost' : call.model \in Model
  BY <1>1 DEF LibraryIInv, LibraryTypeOK
<1>6. poll'.phase = "off" \/ poll'.phase = "timer"
  BY <1>1, <1>2, ShownPoll, LibraryNothing
<1> HIDE DEF none
<1>7. LibraryTypeOK' /\ PollOK' /\ Older'
  BY <1>1, <1>2, <1>3, <1>4, <1>5, LibraryNothing, ShowStep
<1>8. AnswerOK' /\ (~Early => OpOK')
  BY <1>1, LibraryNothing DEF LibraryIInv, OpOK, AnswerOK
<1>9. ToldOK'
  BY <1>6 DEF ToldOK, IsTold
<1>10. QED
  BY <1>7, <1>8, <1>9 DEF LibraryIInv

LEMMA LoadReadStep ==
    ASSUME LibraryIInv, Safety!LoadRead
    PROVE  LibraryIInv'
<1>1. /\ UNCHANGED <<models, rows, op, lost, poll, left, ops>> /\ load.phase = "sent"
      /\ load' = [load EXCEPT !.phase = "read", !.list = models]
  BY DEF Safety!LoadRead
<1>2. /\ load'.phase = "read" /\ load'.list = models
      /\ load' \in [phase : {"idle", "sent", "read", "failed"}, cached : BOOLEAN, hidden : BOOLEAN,
                    list : Installations]
  BY <1>1 DEF LibraryIInv, LibraryTypeOK
<1>3. LibraryTypeOK' /\ PollOK'
  BY <1>1, <1>2 DEF LibraryIInv, LibraryTypeOK, PollOK
<1>4. Older'
  BY <1>1, <1>2 DEF LibraryIInv, LibraryTypeOK, Installations, Installation, Older
<1>5. AnswerOK' /\ (~Early => OpOK' /\ ToldOK')
  BY <1>1, <1>2 DEF LibraryIInv, AnswerOK, OpOK, ToldOK, IsTold, Fetches
<1>6. QED
  BY <1>3, <1>4, <1>5 DEF LibraryIInv

LEMMA LoadFailedStep ==
    ASSUME LibraryIInv, Safety!LoadFailed
    PROVE  LibraryIInv'
<1>1. UNCHANGED <<models, rows, op, lost, poll, left, ops>> /\ load.phase # "idle"
  BY DEF Safety!LoadFailed, Safety!Loading
<1>2. /\ load'.phase = "failed"
      /\ load' \in [phase : {"idle", "sent", "read", "failed"}, cached : BOOLEAN, hidden : BOOLEAN,
                    list : Installations]
  <2>1. /\ load' = [phase |-> "failed", cached |-> load.cached, hidden |-> FALSE,
                    list |-> [m \in Model |-> Safety!None]]
        /\ load.cached \in BOOLEAN
    BY DEF Safety!LoadFailed, Safety!NoLoad, LibraryIInv, LibraryTypeOK
  <2>2. QED
    BY <2>1, LibraryNothing
<1>3. LibraryTypeOK' /\ PollOK' /\ Older'
  BY <1>1, <1>2 DEF LibraryIInv, LibraryTypeOK, PollOK, Older
<1>4. AnswerOK' /\ (~Early => OpOK' /\ ToldOK')
  BY <1>1, <1>2 DEF LibraryIInv, AnswerOK, OpOK, ToldOK, IsTold, Fetches
<1>5. QED
  BY <1>3, <1>4 DEF LibraryIInv

LEMMA LoadAnsweredStep ==
    ASSUME LibraryIInv, Safety!LoadAnswered
    PROVE  LibraryIInv'
<1>1. /\ UNCHANGED <<models, op, lost, left, ops>> /\ load.phase = "read" /\ load' = Safety!NoLoad
      /\ rows' = load.list /\ poll' = Safety!Repolled(load.list, poll)
  BY DEF Safety!LoadAnswered, Safety!Show
<1>2. /\ load.list \in Installations /\ ops \in Nat
      /\ \A m \in Model : load.list[m].changes <= models[m].changes
      /\ poll \in LibraryPolls /\ op \in LibraryOps
      /\ (op.phase # "idle" => op.model \in Model /\ op.kind # "none" /\ ops > 0)
      /\ \A call \in lost : call.model \in Model
  BY <1>1 DEF LibraryIInv, LibraryTypeOK, Older
<1>3. /\ load'.phase = "idle"
      /\ load' \in [phase : {"idle", "sent", "read", "failed"}, cached : BOOLEAN, hidden : BOOLEAN,
                    list : Installations]
  BY <1>1, LibraryNothing DEF Safety!NoLoad
<1>4. (poll.phase = "off" <=> poll.ids = {}) /\ (poll.phase # "off" /\ ~poll.current => ops > 0)
  BY DEF LibraryIInv, PollOK
<1>5. LibraryTypeOK' /\ PollOK' /\ Older'
  BY <1>1, <1>2, <1>3, <1>4, ShowStep
<1>6. AnswerOK' /\ (~Early => OpOK')
  BY <1>1, <1>3 DEF LibraryIInv, AnswerOK, OpOK
<1>7. poll' = poll \/ poll'.phase = "timer" \/ poll'.phase = "off"
  BY <1>1, <1>2, <1>4, ShownPoll
<1>8. poll'.ids = Safety!Downloading(load.list)
  BY <1>1, <1>2, <1>4, ShownPoll
<1>9. ~Early => ToldOK'
  BY <1>1, <1>3, <1>7, <1>8 DEF LibraryIInv, ToldOK, IsTold, Safety!Downloading
<1>10. QED
  BY <1>5, <1>6, <1>9 DEF LibraryIInv

LEMMA OperateStep ==
    ASSUME LibraryIInv, NEW m \in Model, Safety!Operate(m)
    PROVE  LibraryIInv'
<1>1. /\ UNCHANGED <<models, rows, load, lost, poll, left>> /\ ops' = ops + 1
      /\ Safety!Usable
  BY DEF Safety!Operate
<1>2. PICK kind \in Safety!Offered(m) : op' = [Safety!NoCall EXCEPT !.kind = kind, !.model = m, !.phase = "sent"]
  BY DEF Safety!Operate
<1>3. /\ kind \in {"install", "pause", "resume", "remove"}
      /\ kind \in {"install", "resume"} => rows[m].status # "downloading"
  BY DEF Safety!Offered
<1>4. op' \in LibraryOps /\ op'.kind = kind /\ op'.model = m /\ op'.phase = "sent"
  <2> DEFINE a == [Safety!NoCall EXCEPT !.kind = kind]
  <2> DEFINE b == [a EXCEPT !.model = m]
  <2> DEFINE c == [b EXCEPT !.phase = "sent"]
  <2>1. a \in LibraryOps /\ a.kind = kind
    BY <1>3, LibraryNothing DEF LibraryOps
  <2> HIDE DEF a
  <2>2. b \in LibraryOps /\ b.kind = kind /\ b.model = m
    BY <2>1 DEF LibraryOps
  <2> HIDE DEF b
  <2>3. c \in LibraryOps /\ c.kind = kind /\ c.model = m /\ c.phase = "sent"
    BY <2>2 DEF LibraryOps
  <2>4. op' = c
    BY <1>2, LibraryNothing DEF a, b, LibraryOps
  <2> HIDE DEF c
  <2>5. QED
    BY <2>3, <2>4
<1>5. LibraryTypeOK' /\ PollOK' /\ Older'
  BY <1>1, <1>3, <1>4 DEF LibraryIInv, LibraryTypeOK, PollOK, Older
<1>6. AnswerOK' /\ (~Early => OpOK')
  <2>1. ~Early => load.phase = "idle"
    BY <1>1 DEF Safety!Usable, Safety!Shown
  <2>2. QED
    BY <1>1, <1>3, <1>4, <2>1 DEF LibraryIInv, AnswerOK, OpOK, Fetches
<1>7. ~Early => ToldOK'
  BY <1>1 DEF LibraryIInv, ToldOK, IsTold
<1>8. QED
  BY <1>5, <1>6, <1>7 DEF LibraryIInv

\* What Core makes of a call.
LEMMA EffectIs ==
    ASSUME LibraryIInv, NEW kind, NEW m \in Model, NEW next \in Safety!Effect(kind, m)
    PROVE  /\ next \in Installation /\ next.changes >= models[m].changes
           /\ kind \in {"install", "resume"} => next.status = "downloading"
           /\ kind \in {"pause", "remove"} => next.status # "downloading"
<1>1. models[m] \in Installation
  BY DEF LibraryIInv, LibraryTypeOK, Installations
<1>2. \A status \in {"none", "downloading", "stopped", "ready"} :
        /\ Safety!Changed(m, status) \in Installation /\ Safety!Changed(m, status).status = status
        /\ Safety!Changed(m, status).changes >= models[m].changes
  BY <1>1 DEF Safety!Changed, Installation
<1>3. next = models[m] => models[m].changes >= models[m].changes
  BY <1>1 DEF Installation
<1>4. CASE kind \in {"install", "resume"}
  BY <1>2, <1>4 DEF Safety!Effect
<1>5. CASE kind = "pause"
  BY <1>1, <1>2, <1>3, <1>5 DEF Safety!Effect
<1>6. CASE kind = "remove"
  BY <1>2, <1>6 DEF Safety!Effect
<1>7. CASE kind \notin {"install", "resume", "pause", "remove"}
  BY <1>7 DEF Safety!Effect
<1>8. QED
  BY <1>4, <1>5, <1>6, <1>7

\* Core's state of a model grows.
LEMMA CoreGrows ==
    ASSUME LibraryIInv, NEW m \in Model, NEW next \in Installation,
           next.changes >= models[m].changes, models' = [models EXCEPT ![m] = next],
           UNCHANGED <<rows, load, poll>>
    PROVE  /\ models' \in Installations /\ models'[m] = next
           /\ \A n \in Model \ {m} : models'[n] = models[n]
           /\ \A n \in Model : models'[n].changes >= models[n].changes
           /\ Older'
<1>1. /\ models \in Installations /\ rows \in Installations /\ poll \in LibraryPolls
      /\ load.list \in Installations
  BY DEF LibraryIInv, LibraryTypeOK
<1>2. /\ models' \in Installations /\ models'[m] = next
      /\ \A n \in Model \ {m} : models'[n] = models[n]
  BY <1>1 DEF Installations
<1>3. \A n \in Model : models'[n].changes >= models[n].changes
  BY <1>1, <1>2 DEF Installations, Installation
<1>4. \A n \in Model : /\ models[n].changes \in Nat /\ models'[n].changes \in Nat
                       /\ rows[n].changes \in Nat /\ load.list[n].changes \in Nat
                       /\ poll.answers[n].changes \in Nat
  BY <1>1, <1>2 DEF Installations, Installation, LibraryPolls
<1>5. Older'
  BY <1>3, <1>4 DEF LibraryIInv, Older
<1>6. QED
  BY <1>2, <1>3, <1>5

LEMMA ServeStep ==
    ASSUME LibraryIInv, Safety!Serve
    PROVE  LibraryIInv'
<1>1. UNCHANGED <<rows, load, lost, poll, left, ops>> /\ op.phase = "sent" /\ op.model \in Model
  BY DEF Safety!Serve, LibraryIInv, LibraryTypeOK
<1>2. op \in LibraryOps /\ op.kind \in {"install", "resume", "pause", "remove"}
  BY <1>1 DEF LibraryIInv, LibraryTypeOK, LibraryOps
<1>3. CASE op' = [op EXCEPT !.phase = "refused"] /\ UNCHANGED models
  <2>1. op' \in LibraryOps /\ op'.model = op.model /\ op'.kind = op.kind /\ op'.phase = "refused"
    BY <1>2, <1>3 DEF LibraryOps
  <2>2. LibraryTypeOK' /\ PollOK' /\ Older'
    BY <1>1, <1>2, <1>3, <2>1 DEF LibraryIInv, LibraryTypeOK, PollOK, Older
  <2>3. AnswerOK' /\ (~Early => OpOK' /\ ToldOK')
    BY <1>1, <1>3, <2>1 DEF LibraryIInv, AnswerOK, OpOK, ToldOK, IsTold, Fetches
  <2>4. QED
    BY <2>2, <2>3 DEF LibraryIInv
<1>4. ASSUME NEW next \in Safety!Effect(op.kind, op.model),
             models' = [models EXCEPT ![op.model] = next],
             \/ op' = [op EXCEPT !.phase = "done", !.answer = next]
             \/ op' = [op EXCEPT !.phase = "refused"]
      PROVE  LibraryIInv'
  <2>2. PICK m \in Model : m = op.model
    BY <1>1
  <2>3. /\ next \in Installation /\ next.changes >= models[m].changes
        /\ op.kind \in {"install", "resume"} => next.status = "downloading"
        /\ op.kind \in {"pause", "remove"} => next.status # "downloading"
    BY <2>2, EffectIs
  <2>4. /\ op' \in LibraryOps /\ op'.model = m /\ op'.kind = op.kind
        /\ op'.phase = "refused" \/ (op'.phase = "done" /\ op'.answer = next)
    BY <1>2, <1>4, <2>2, <2>3 DEF LibraryOps
  <2>5. /\ models' \in Installations /\ models'[m] = next
        /\ \A n \in Model \ {m} : models'[n] = models[n]
        /\ Older'
    BY <1>1, <1>4, <2>2, <2>3, CoreGrows
  <2>6. LibraryTypeOK' /\ PollOK'
    BY <1>1, <1>2, <2>4, <2>5 DEF LibraryIInv, LibraryTypeOK, PollOK
  <2>7. AnswerOK' /\ (~Early => OpOK')
    <3>1. rows[m].changes <= next.changes /\ next.changes <= next.changes
      BY <1>1, <2>5, <2>6 DEF Older, LibraryTypeOK, Installations, Installation
    <3>2. QED
      BY <1>1, <1>2, <2>2, <2>3, <2>4, <2>5, <3>1 DEF LibraryIInv, AnswerOK, OpOK, Fetches
  <2>8. ~Early => ToldOK'
    BY <1>1, <2>5 DEF LibraryIInv, OpOK, ToldOK, IsTold
  <2>9. QED
    BY <2>5, <2>6, <2>7, <2>8 DEF LibraryIInv
<1>5. QED
  BY <1>3, <1>4 DEF Safety!Serve, Safety!CarriedOut, Safety!TurnedDown

LEMMA ServeLostStep ==
    ASSUME LibraryIInv, Safety!ServeLost
    PROVE  LibraryIInv'
<1>1. UNCHANGED <<rows, load, op, poll, left, ops>>
  BY DEF Safety!ServeLost
<1>2. PICK call \in lost :
        /\ lost' = lost \ {call}
        /\ \/ \E next \in Safety!Effect(call.kind, call.model) : models' = [models EXCEPT ![call.model] = next]
           \/ UNCHANGED models
  BY DEF Safety!ServeLost, Safety!CarriedOut, Safety!TurnedDown
<1>3. PICK m \in Model : m = call.model
  BY DEF LibraryIInv, LibraryTypeOK
<1>4. /\ models' \in Installations /\ Older'
      /\ \A n \in Model : models'[n].changes >= models[n].changes
  <2>1. CASE UNCHANGED models
    BY <1>1, <2>1 DEF LibraryIInv, LibraryTypeOK, Older, Installations, Installation
  <2>2. CASE \E next \in Safety!Effect(call.kind, call.model) : models' = [models EXCEPT ![call.model] = next]
    <3>1. PICK next \in Safety!Effect(call.kind, m) : models' = [models EXCEPT ![m] = next]
      BY <1>3, <2>2
    <3>2. next \in Installation /\ next.changes >= models[m].changes
      BY <3>1, EffectIs
    <3>3. QED
      BY <1>1, <3>1, <3>2, CoreGrows
  <2>3. QED
    BY <1>2, <2>1, <2>2
<1>5. LibraryTypeOK' /\ PollOK'
  BY <1>1, <1>2, <1>4 DEF LibraryIInv, LibraryTypeOK, PollOK
<1>6. ~Early => left
  BY <1>2 DEF LibraryIInv, OpOK
<1>10. AnswerOK'
  BY <1>1, <1>4 DEF LibraryIInv, LibraryTypeOK, LibraryOps, AnswerOK, Installations, Installation
<1>7. ~Early => OpOK'
  BY <1>1, <1>6 DEF LibraryIInv, OpOK, Fetches
<1>8. ~Early => ToldOK'
  BY <1>1, <1>6 DEF ToldOK
<1>9. QED
  BY <1>4, <1>5, <1>7, <1>8, <1>10 DEF LibraryIInv

LEMMA EndsStep ==
    ASSUME LibraryIInv, NEW m \in Model, Safety!Ends(m)
    PROVE  LibraryIInv'
<1>1. UNCHANGED <<rows, load, op, lost, poll, left, ops>> /\ models[m].status = "downloading"
  BY DEF Safety!Ends
<1>2. PICK status \in {"ready", "stopped"} : models' = [models EXCEPT ![m] = Safety!Changed(m, status)]
  BY DEF Safety!Ends
<1>9. models[m] \in Installation
  BY DEF LibraryIInv, LibraryTypeOK, Installations
<1>10. /\ Safety!Changed(m, status) \in Installation /\ Safety!Changed(m, status).status = status
       /\ Safety!Changed(m, status).changes >= models[m].changes
  BY <1>9 DEF Safety!Changed, Installation
<1>3. PICK next \in Installation :
        next = Safety!Changed(m, status) /\ next.status = status /\ next.changes >= models[m].changes
  BY <1>10
<1>4. /\ models' \in Installations /\ models'[m] = next
      /\ \A n \in Model \ {m} : models'[n] = models[n]
      /\ \A n \in Model : models'[n].changes >= models[n].changes
      /\ Older'
  BY <1>1, <1>2, <1>3, CoreGrows
<1>5. LibraryTypeOK' /\ PollOK'
  BY <1>1, <1>4 DEF LibraryIInv, LibraryTypeOK, PollOK
<1>11. AnswerOK'
  BY <1>1, <1>4 DEF LibraryIInv, LibraryTypeOK, LibraryOps, AnswerOK, Installations, Installation
<1>6. ~Early => OpOK'
  <2>1. SUFFICES ASSUME ~Early PROVE OpOK'
    OBVIOUS
  <2>3. op.phase = "done" /\ ~left /\ ~Fetches => op.model # m
    BY <1>1, <2>1 DEF LibraryIInv, OpOK
  <2>4. op.phase = "done" /\ ~left /\ ~Fetches => models'[op.model] = models[op.model]
    BY <1>4, <2>3 DEF LibraryIInv, LibraryTypeOK
  <2>5. QED
    BY <1>1, <2>1, <2>4 DEF LibraryIInv, OpOK, Fetches
<1>7. ~Early => ToldOK'
  BY <1>1, <1>3, <1>4 DEF LibraryIInv, ToldOK, IsTold
<1>8. QED
  BY <1>4, <1>5, <1>6, <1>7, <1>11 DEF LibraryIInv

-----------------------------------------------------------------------------
\* The row of the operator's model becomes what Core answered.
LEMMA AnsweredShows ==
    ASSUME LibraryIInv, Safety!Answered
    PROVE  /\ op.model \in Model
           /\ rows' \in Installations /\ rows'[op.model] = op.answer
           /\ \A m \in Model \ {op.model} : rows'[m] = rows[m]
           /\ ops \in Nat /\ ops > 0
           /\ \E before \in LibraryPolls :
                /\ poll' = Safety!Repolled(rows', before)
                /\ before.phase = poll.phase /\ before.ids = poll.ids
                /\ before.answers = poll.answers
                /\ before.current => poll.current
                /\ op.kind \in {"pause", "resume", "remove"} => ~before.current
<1>1. /\ op.phase = "done" /\ op.model \in Model /\ op.answer \in Installation
      /\ rows \in Installations /\ poll \in LibraryPolls /\ op \in LibraryOps /\ op.kind # "none"
      /\ ops \in Nat /\ ops > 0
  BY DEF Safety!Answered, LibraryIInv, LibraryTypeOK, LibraryOps
<1> DEFINE listed == [rows EXCEPT ![op.model] = op.answer]
<1>2. /\ listed \in Installations /\ listed[op.model] = op.answer
      /\ \A m \in Model \ {op.model} : listed[m] = rows[m]
  BY <1>1 DEF Installations
<1>3. /\ rows' = listed
      /\ \/ op.kind = "install" /\ poll' = Safety!Repolled(listed, poll)
         \/ op.kind # "install" /\ poll' = Safety!Repolled(listed, Safety!Invalidated)
  BY Zenon DEF Safety!Answered, Safety!Show
<1>4. /\ Safety!Invalidated \in LibraryPolls /\ Safety!Invalidated.phase = poll.phase
      /\ Safety!Invalidated.ids = poll.ids /\ Safety!Invalidated.answers = poll.answers
      /\ ~Safety!Invalidated.current
  BY <1>1 DEF Safety!Invalidated, LibraryPolls
<1> HIDE DEF listed
<1>5. \E before \in LibraryPolls :
        /\ poll' = Safety!Repolled(listed, before)
        /\ before.phase = poll.phase /\ before.ids = poll.ids /\ before.answers = poll.answers
        /\ before.current => poll.current
        /\ op.kind \in {"pause", "resume", "remove"} => ~before.current
  <2>1. CASE op.kind = "install"
    BY <1>1, <1>3, <2>1
  <2>2. CASE op.kind # "install"
    BY <1>3, <1>4, <2>2
  <2>3. QED
    BY <2>1, <2>2
<1>6. QED
  BY <1>1, <1>2, <1>3, <1>5

LEMMA AnsweredStep ==
    ASSUME LibraryIInv, Safety!Answered
    PROVE  LibraryIInv'
<1>1. UNCHANGED <<models, load, lost, left, ops>> /\ op' = Safety!NoCall /\ op.phase = "done"
  BY DEF Safety!Answered
<1>2. PICK m \in Model : m = op.model
  BY AnsweredShows
<1>3. /\ rows' \in Installations /\ rows'[m] = op.answer
      /\ \A n \in Model \ {m} : rows'[n] = rows[n]
      /\ ops \in Nat /\ ops > 0
  BY <1>2, AnsweredShows
<1>4. PICK before \in LibraryPolls :
        /\ poll' = Safety!Repolled(rows', before)
        /\ before.phase = poll.phase /\ before.ids = poll.ids /\ before.answers = poll.answers
        /\ before.current => poll.current
        /\ op.kind \in {"pause", "resume", "remove"} => ~before.current
  BY AnsweredShows
<1>5. PICK listed \in Installations : listed = rows'
  BY <1>3
<1>6. /\ before.phase = "off" <=> before.ids = {}
      /\ load \in [phase : {"idle", "sent", "read", "failed"}, cached : BOOLEAN, hidden : BOOLEAN,
                   list : Installations]
      /\ \A call \in lost : call.model \in Model
      /\ op \in LibraryOps /\ op.kind # "none"
  BY <1>1, <1>4 DEF LibraryIInv, LibraryTypeOK, PollOK
<1>7. \A n \in Model : listed[n].changes <= models[n].changes
  <2>1. op.answer.changes <= models[m].changes
    BY <1>1, <1>2 DEF LibraryIInv, AnswerOK
  <2>2. QED
    BY <1>3, <1>5, <2>1 DEF LibraryIInv, Older
<1>8. LibraryTypeOK' /\ PollOK' /\ Older'
  BY <1>1, <1>3, <1>4, <1>5, <1>6, <1>7, LibraryNothing, ShowStep
<1>9. AnswerOK' /\ (~Early => OpOK')
  BY <1>1, LibraryNothing DEF LibraryIInv, OpOK, AnswerOK
<1>10. \/ poll' = before \/ poll'.phase = "timer" \/ poll'.phase = "off"
  BY <1>4, <1>5, <1>6, ShownPoll
<1>11. ~Early => ToldOK'
  <2> SUFFICES ASSUME ~Early, ~left, NEW n \in Model, IsTold(n)'
               PROVE  /\ rows'[n].changes <= poll'.answers[n].changes
                      /\ load'.phase = "idle"
    BY <1>1 DEF ToldOK
  <2>1. load.phase = "idle"
    BY <1>1 DEF LibraryIInv, OpOK
  <2>2. poll' = before /\ before.current /\ before.phase = "reading"
    BY <1>10 DEF IsTold
  <2>3. op.kind = "install"
    BY <1>6, <2>2, <1>4 DEF LibraryOps
  <2>4. rows[m].status # "downloading"
    BY <1>1, <1>2, <2>3 DEF LibraryIInv, OpOK, Fetches
  <2>5. n \in poll.ids /\ IsTold(n)
    BY <1>4, <2>2 DEF IsTold
  <2>6. n # m
    BY <2>4, <2>5 DEF LibraryIInv, PollOK, Safety!Downloading
  <2>7. rows[n].changes <= poll.answers[n].changes
    BY <2>5 DEF LibraryIInv, ToldOK
  <2>8. QED
    BY <1>1, <1>3, <1>4, <2>1, <2>2, <2>6, <2>7
<1>12. QED
  BY <1>8, <1>9, <1>11 DEF LibraryIInv

LEMMA RefusedStep ==
    ASSUME LibraryIInv, Safety!Refused
    PROVE  LibraryIInv'
<1>1. UNCHANGED <<models, rows, load, lost, poll, left, ops>> /\ op' = Safety!NoCall
  BY DEF Safety!Refused
<1>2. LibraryTypeOK' /\ PollOK' /\ Older'
  BY <1>1, LibraryNothing DEF LibraryIInv, LibraryTypeOK, PollOK, Older
<1>3. AnswerOK' /\ (~Early => OpOK' /\ ToldOK')
  BY <1>1, LibraryNothing DEF LibraryIInv, AnswerOK, OpOK, ToldOK, IsTold
<1>4. QED
  BY <1>2, <1>3 DEF LibraryIInv

-----------------------------------------------------------------------------
\* A step of the poll that changes neither what it asks for nor what is shown.
LEMMA AskStep ==
    ASSUME LibraryIInv, UNCHANGED <<models, rows, load, op, lost, left, ops>>,
           poll' \in LibraryPolls, poll'.ids = poll.ids, poll'.current = poll.current,
           poll.phase # "off", poll'.phase # "off",
           \A m \in Model : poll'.phase = "reading" /\ poll'.answers[m].status # "none" =>
               \/ poll'.answers[m] = models[m]
               \/ poll.phase = "reading" /\ poll'.answers[m] = poll.answers[m]
    PROVE  LibraryIInv'
<1>1. LibraryTypeOK' /\ PollOK' /\ AnswerOK' /\ (~Early => OpOK')
  BY DEF LibraryIInv, LibraryTypeOK, PollOK, AnswerOK, OpOK, Fetches
<1>2. \A m \in Model :
        /\ models[m].changes \in Nat /\ rows[m].changes \in Nat /\ load.list[m].changes \in Nat
        /\ rows[m].changes <= models[m].changes
        /\ load.phase = "read" => load.list[m].changes <= models[m].changes
  BY DEF LibraryIInv, LibraryTypeOK, Installations, Installation, Older
<1>3. Older'
  BY <1>2 DEF LibraryIInv, Older
<1>4. ASSUME ~Early, ~left, NEW m \in Model, IsTold(m)'
      PROVE  /\ rows[m].changes <= poll'.answers[m].changes
             /\ load.phase = "sent" /\ models[m].status = "downloading" =>
                  models[m].changes <= poll'.answers[m].changes
             /\ load.phase = "read" /\ load.list[m].status = "downloading" =>
                  load.list[m].changes <= poll'.answers[m].changes
  <2>1. CASE poll'.answers[m] = models[m]
    BY <1>2, <2>1
  <2>2. CASE poll.phase = "reading" /\ poll'.answers[m] = poll.answers[m]
    BY <1>4, <2>2 DEF LibraryIInv, ToldOK, IsTold
  <2>3. QED
    BY <1>4, <2>1, <2>2 DEF IsTold
<1>5. ~Early => ToldOK'
  BY <1>4 DEF ToldOK
<1>6. QED
  BY <1>1, <1>3, <1>5 DEF LibraryIInv

LEMMA PollSendsStep ==
    ASSUME LibraryIInv, Safety!PollSends
    PROVE  LibraryIInv'
<1>1. /\ UNCHANGED <<models, rows, load, op, lost, left, ops>> /\ poll.phase = "timer"
      /\ poll' = [poll EXCEPT !.phase = "reading", !.answers = [m \in Model |-> Safety!None]]
      /\ poll \in LibraryPolls
  BY DEF Safety!PollSends, LibraryIInv, LibraryTypeOK
<1>2. PICK none \in Installations : none = [m \in Model |-> Safety!None]
  BY LibraryNothing
<1>3. /\ poll' \in LibraryPolls /\ poll'.ids = poll.ids /\ poll'.current = poll.current
      /\ poll'.phase = "reading" /\ poll'.answers = none
  BY <1>1, <1>2 DEF LibraryPolls
<1>4. \A m \in Model : poll'.answers[m].status = "none"
  BY <1>2, <1>3 DEF Safety!None
<1>5. QED
  BY <1>1, <1>3, <1>4, AskStep

LEMMA PollReadsStep ==
    ASSUME LibraryIInv, Safety!PollReads
    PROVE  LibraryIInv'
<1>1. /\ UNCHANGED <<models, rows, load, op, lost, left, ops>> /\ poll.phase = "reading"
      /\ poll \in LibraryPolls /\ models \in Installations
  BY DEF Safety!PollReads, LibraryIInv, LibraryTypeOK
<1>2. PICK m \in Model : poll' = [poll EXCEPT !.answers[m] = models[m]]
  BY <1>1 DEF Safety!PollReads, Safety!Unread, LibraryPolls
<1>3. PICK answers \in Installations : answers = [poll.answers EXCEPT ![m] = models[m]]
  BY <1>1 DEF LibraryPolls, Installations
<1>4. /\ poll' \in LibraryPolls /\ poll'.ids = poll.ids /\ poll'.current = poll.current
      /\ poll'.phase = "reading" /\ poll'.answers = answers
  <2>1. poll' = [poll EXCEPT !.answers = answers]
    BY <1>1, <1>2, <1>3 DEF LibraryPolls
  <2>2. QED
    BY <1>1, <1>3, <2>1 DEF LibraryPolls
<1>5. \A n \in Model : answers[n] = models[n] \/ answers[n] = poll.answers[n]
  BY <1>1, <1>3 DEF LibraryPolls, Installations
<1>6. QED
  BY <1>1, <1>4, <1>5, AskStep

\* The next poll is scheduled, unless this one no longer counts.
LEMMA NextPoll ==
    ASSUME LibraryIInv
    PROVE  /\ Safety!Scheduled \in LibraryPolls /\ Safety!Scheduled.ids = poll.ids
           /\ Safety!Scheduled.current = poll.current
           /\ Safety!Scheduled.phase = IF poll.current THEN "timer" ELSE "over"
BY DEF LibraryIInv, LibraryTypeOK, LibraryPolls, Safety!Scheduled

LEMMA PollFailedStep ==
    ASSUME LibraryIInv, Safety!PollFailed
    PROVE  LibraryIInv'
<1>1. /\ UNCHANGED <<models, rows, load, op, lost, left, ops>> /\ poll.phase = "reading"
      /\ poll' = Safety!Scheduled
  BY DEF Safety!PollFailed
<1>2. QED
  BY <1>1, NextPoll, AskStep

LEMMA PollAnsweredStep ==
    ASSUME LibraryIInv, Safety!PollAnswered
    PROVE  LibraryIInv'
<1>1. /\ UNCHANGED <<models, load, op, lost, left, ops>> /\ poll.phase = "reading"
      /\ \A m \in poll.ids : poll.answers[m].status # "none"
  BY DEF Safety!PollAnswered, Safety!Unread
<1>2. CASE ~poll.current
  <2>1. UNCHANGED rows /\ poll' = Safety!Scheduled
    BY <1>2 DEF Safety!PollAnswered
  <2>2. QED
    BY <1>1, <1>2, <2>1, NextPoll, AskStep
<1>3. CASE poll.current
  <2>1. PICK listed : listed = [m \in Model |-> IF m \in poll.ids /\ rows[m].status # "none"
                                            THEN poll.answers[m] ELSE rows[m]]
    OBVIOUS
  <2>2. rows' = listed /\ poll' = Safety!Repolled(listed, Safety!Scheduled)
    BY <1>3, <2>1 DEF Safety!PollAnswered, Safety!Show
  <2>3. /\ rows \in Installations /\ poll.answers \in Installations /\ models \in Installations
        /\ poll \in LibraryPolls /\ ops \in Nat /\ op \in LibraryOps
        /\ op.phase # "idle" => op.model \in Model /\ op.kind # "none" /\ ops > 0
        /\ load \in [phase : {"idle", "sent", "read", "failed"}, cached : BOOLEAN, hidden : BOOLEAN,
                     list : Installations]
        /\ \A call \in lost : call.model \in Model
        /\ poll.ids = Safety!Downloading(rows) /\ (poll.phase = "off" <=> poll.ids = {})
    BY DEF LibraryIInv, LibraryTypeOK, PollOK, LibraryPolls
  <2>4. \A m \in Model : listed[m] = IF m \in poll.ids THEN poll.answers[m] ELSE rows[m]
    BY <2>1, <2>3 DEF Safety!Downloading
  <2>5. listed \in Installations
    BY <2>1, <2>3 DEF Installations
  <2>6. \A m \in Model : listed[m].changes <= models[m].changes
    BY <1>1, <2>4 DEF LibraryIInv, Older
  <2>7. /\ Safety!Scheduled \in LibraryPolls /\ Safety!Scheduled.ids = poll.ids
        /\ Safety!Scheduled.current
        /\ Safety!Scheduled.phase = "timer"
    BY <1>3, NextPoll
  <2>8. Safety!Scheduled.phase = "off" <=> Safety!Scheduled.ids = {}
    BY <1>1, <2>3, <2>7
  <2>9. LibraryTypeOK' /\ PollOK' /\ Older'
    <3>1. PICK before \in LibraryPolls :
            /\ before = Safety!Scheduled /\ before.ids = poll.ids /\ before.current
            /\ before.phase = "timer"
      BY <2>7
    <3>2. QED
      BY <1>1, <2>2, <2>3, <2>5, <2>6, <2>8, <3>1, ShowStep
  <2>10. poll'.phase = "timer" \/ poll'.phase = "off"
    BY <2>2, <2>5, <2>7, <2>8, ShownPoll
  <2>11. ToldOK'
    BY <2>10 DEF ToldOK, IsTold
  <2>12. AnswerOK' /\ (~Early => OpOK')
    <3>1. AnswerOK'
      BY <1>1 DEF LibraryIInv, AnswerOK
    <3>2. ASSUME ~Early, op.phase # "idle" PROVE Fetches => op.model \notin poll.ids
      BY <2>3, <3>2 DEF LibraryIInv, OpOK, Safety!Downloading
    <3>3. ASSUME ~Early, op.phase = "done", ~left
          PROVE  listed[op.model].changes <= op.answer.changes
      <4>1. op.model \in Model
        BY <2>3, <3>3
      <4>2. CASE Fetches
        BY <2>4, <3>2, <3>3, <4>1, <4>2 DEF LibraryIInv, OpOK
      <4>3. CASE ~Fetches
        BY <2>6, <3>3, <4>1, <4>3 DEF LibraryIInv, OpOK
      <4>4. QED
        BY <4>2, <4>3
    <3>4. ASSUME ~Early, op.phase # "idle", Fetches
          PROVE  listed[op.model].status # "downloading"
      BY <2>3, <2>4, <3>2, <3>4 DEF LibraryIInv, OpOK
    <3>5. QED
      BY <1>1, <2>2, <3>1, <3>3, <3>4 DEF LibraryIInv, OpOK, Fetches
  <2>13. QED
    BY <2>9, <2>11, <2>12 DEF LibraryIInv
<1>4. QED
  BY <1>2, <1>3

-----------------------------------------------------------------------------
LEMMA LibraryNext ==
    ASSUME LibraryIInv, Safety!Next
    PROVE  LibraryIInv'
<1>1. ASSUME NEW m \in Model, Safety!Operate(m) \/ Safety!Ends(m) PROVE LibraryIInv'
  BY <1>1, OperateStep, EndsStep
<1>2. QED
  BY <1>1, VisitStep, RefreshStep, LoadReadStep, LoadAnsweredStep, LoadFailedStep, ServeStep, ServeLostStep,
     AnsweredStep, RefusedStep, PollSendsStep, PollReadsStep, PollAnsweredStep, PollFailedStep
     DEF Safety!Next, Safety!Reading, Safety!Operating, Safety!Polling

LEMMA LibraryStutter ==
    ASSUME LibraryIInv, UNCHANGED Safety!vars
    PROVE  LibraryIInv'
BY DEF Safety!vars, LibraryIInv, LibraryTypeOK, PollOK, Older, AnswerOK, OpOK, ToldOK,
       IsTold, Fetches, Safety!Downloading

LEMMA LibraryImplies ==
    ASSUME LibraryIInv
    PROVE  Safety!LibraryInv
<1>1. rows \in Installations
  BY DEF LibraryIInv, LibraryTypeOK
<1>2. QED
  BY <1>1 DEF LibraryIInv, PollOK, Safety!LibraryInv, Installations, Installation

\* What a step does to a row that the page shows.
LEMMA LibraryGrows ==
    ASSUME ~Early, LibraryIInv, [Safety!Next]_(Safety!vars), visits \in Nat, visits' = visits,
           load.phase = "idle", ~left, NEW m \in Model
    PROVE  rows'[m].changes >= rows[m].changes
<1>1. rows[m].changes \in Nat /\ models[m].changes \in Nat
  BY DEF LibraryIInv, LibraryTypeOK, Installations, Installation
<1>2. CASE UNCHANGED rows
  BY <1>1, <1>2
<1>3. CASE Safety!Answered
  <2>1. PICK n \in Model : n = op.model
    BY <1>3, AnsweredShows
  <2>2. rows'[n] = op.answer /\ \A o \in Model \ {n} : rows'[o] = rows[o]
    BY <1>3, <2>1, AnsweredShows
  <2>3. rows[n].changes <= op.answer.changes
    BY <1>3, <2>1 DEF LibraryIInv, OpOK, Safety!Answered
  <2>4. op.answer.changes \in Nat
    BY DEF LibraryIInv, LibraryTypeOK, LibraryOps, Installation
  <2>5. QED
    BY <1>1, <2>2, <2>3, <2>4
<1>4. CASE Safety!PollAnswered
  <2>1. CASE m \in poll.ids /\ poll.current /\ rows[m].status # "none"
    <3>1. rows'[m] = poll.answers[m]
      BY <1>4, <2>1 DEF Safety!PollAnswered, Safety!Show
    <3>2. IsTold(m)
      BY <1>4, <2>1 DEF Safety!PollAnswered, Safety!Unread, IsTold
    <3>3. rows[m].changes <= poll.answers[m].changes
      BY <3>2 DEF LibraryIInv, ToldOK
    <3>4. poll.answers[m].changes \in Nat
      BY DEF LibraryIInv, LibraryTypeOK, LibraryPolls, Installations, Installation
    <3>5. QED
      BY <1>1, <3>1, <3>3, <3>4
  <2>2. CASE ~(m \in poll.ids /\ poll.current /\ rows[m].status # "none")
    <3>1. rows'[m] = rows[m]
      BY <1>4, <2>2 DEF Safety!PollAnswered, Safety!Show
    <3>2. QED
      BY <1>1, <3>1
  <2>3. QED
    BY <2>1, <2>2
<1>5. CASE Safety!Visit \/ Safety!Refresh \/ Safety!LoadAnswered
  BY <1>5 DEF Safety!Visit, Safety!Refresh, Safety!LoadAnswered
<1>6. CASE UNCHANGED Safety!vars
  BY <1>2, <1>6 DEF Safety!vars
<1>7. ASSUME NEW n \in Model, Safety!Operate(n) \/ Safety!Ends(n) PROVE UNCHANGED rows
  BY <1>7 DEF Safety!Operate, Safety!Ends
<1>8. Safety!LoadRead \/ Safety!LoadFailed \/ Safety!Serve \/ Safety!ServeLost \/ Safety!Refused \/ Safety!PollSends \/ Safety!PollReads \/ Safety!PollFailed
        => UNCHANGED rows
  BY DEF Safety!LoadRead, Safety!LoadFailed, Safety!Serve, Safety!ServeLost, Safety!Refused, Safety!PollSends,
         Safety!PollReads, Safety!PollFailed
<1>9. QED
  BY <1>2, <1>3, <1>4, <1>5, <1>6, <1>7, <1>8
     DEF Safety!Next, Safety!Reading, Safety!Operating, Safety!Polling

LEMMA LibraryVisits ==
    /\ Safety!Init => visits \in Nat
    /\ visits \in Nat /\ [Safety!Next]_(Safety!vars) => visits' \in Nat
<1>1. Safety!Init => visits \in Nat
  BY DEF Safety!Init
<1>2. ASSUME visits \in Nat, Safety!Visit \/ Safety!Refresh PROVE visits' \in Nat
  BY <1>2 DEF Safety!Visit, Safety!Refresh
<1>3. ASSUME NEW m \in Model, Safety!Operate(m) \/ Safety!Ends(m) PROVE UNCHANGED visits
  BY <1>3 DEF Safety!Operate, Safety!Ends
<1>4. Safety!LoadRead \/ Safety!LoadAnswered \/ Safety!LoadFailed \/ Safety!Serve \/ Safety!ServeLost \/ Safety!Answered \/ Safety!Refused \/ Safety!PollSends
        \/ Safety!PollReads \/ Safety!PollAnswered \/ Safety!PollFailed => UNCHANGED visits
  BY DEF Safety!LoadRead, Safety!LoadAnswered, Safety!LoadFailed, Safety!Serve, Safety!ServeLost,
         Safety!Answered, Safety!Refused, Safety!PollSends, Safety!PollReads,
         Safety!PollAnswered, Safety!PollFailed
<1>5. QED
  BY <1>1, <1>2, <1>3, <1>4
     DEF Safety!vars, Safety!Next, Safety!Reading, Safety!Operating, Safety!Polling

-----------------------------------------------------------------------------
\* The parts side by side.
DesktopIInv ==
    /\ Status!StatusInv /\ Services!PagesInv /\ Services!OneLoad /\ AutosaveIInv
    /\ LibraryIInv /\ visits \in Nat
    /\ GapInv /\ RowsInv

LEMMA DesktopInitial == DesktopInit => DesktopIInv
<1> SUFFICES ASSUME DesktopInit PROVE DesktopIInv
  OBVIOUS
<1>1. Status!StatusInv
  BY InitStatusInv DEF DesktopInit
<1>2. Services!PagesInv /\ Services!OneLoad
  BY DesktopAssumption, InitPagesInv DEF DesktopInit, Services!Init, Services!OneLoad
<1>3. AutosaveIInv
  BY DesktopAssumption, AutosaveInit DEF DesktopInit
<1>4. LibraryIInv /\ visits \in Nat
  BY DesktopAssumption, LibraryInit, LibraryVisits DEF DesktopInit
<1>5. GapInv /\ RowsInv
  BY DesktopAssumption, InitGapInv, InitRowsInv DEF DesktopInit
<1>6. QED
  BY <1>1, <1>2, <1>3, <1>4, <1>5 DEF DesktopIInv

\* A step of the window is a step of a part, or leaves it as it is.
LEMMA PartSteps ==
    ASSUME [DesktopNext]_desktopVars
    PROVE  /\ [Status!Next]_(Status!vars) /\ [Services!Next]_(Services!vars)
           /\ [Routing!Next]_(Routing!vars) /\ [Safety!Next]_(Safety!vars) /\ [Next]_vars
<1>1. UNCHANGED statusVars => UNCHANGED Status!vars
  BY DEF statusVars, Status!vars
<1>2. UNCHANGED serviceVars => UNCHANGED Services!vars
  BY DEF serviceVars, Services!vars, Services!window, Services!busy, Services!counts
<1>3. UNCHANGED routingVars => UNCHANGED Routing!vars
  BY DEF routingVars, Routing!vars, Routing!page
<1>4. UNCHANGED safetyVars => UNCHANGED Safety!vars
  BY DEF safetyVars, Safety!vars
<1>5. UNCHANGED listVars => UNCHANGED vars
  BY DEF listVars
<1>6. CASE UNCHANGED desktopVars
  BY <1>1, <1>2, <1>3, <1>4, <1>5, <1>6 DEF desktopVars
<1>7. CASE StatusStep
  BY <1>2, <1>3, <1>4, <1>5, <1>7 DEF StatusStep
<1>8. CASE ServicesStep
  BY <1>1, <1>3, <1>4, <1>5, <1>8 DEF ServicesStep
<1>9. CASE RoutingStep
  BY <1>1, <1>2, <1>4, <1>5, <1>9 DEF RoutingStep
<1>10. CASE SafetyStep
  BY <1>1, <1>2, <1>3, <1>5, <1>10 DEF SafetyStep
<1>11. CASE ListStep
  BY <1>1, <1>2, <1>3, <1>4, <1>11 DEF ListStep
<1>12. QED
  BY <1>6, <1>7, <1>8, <1>9, <1>10, <1>11 DEF DesktopNext

LEMMA DesktopStep == DesktopIInv /\ [DesktopNext]_desktopVars => DesktopIInv'
<1> SUFFICES ASSUME DesktopIInv, [DesktopNext]_desktopVars PROVE DesktopIInv'
  OBVIOUS
<1>1. /\ [Status!Next]_(Status!vars) /\ [Services!Next]_(Services!vars)
      /\ [Routing!Next]_(Routing!vars) /\ [Safety!Next]_(Safety!vars) /\ [Next]_vars
  BY PartSteps
<1>2. Status!StatusInv'
  BY <1>1, StatusStepKeepsInv DEF DesktopIInv
<1>3. Services!PagesInv' /\ Services!OneLoad'
  BY <1>1, DesktopAssumption, StepKeepsPagesInv, StepKeepsOneLoad DEF DesktopIInv
<1>4. AutosaveIInv'
  BY <1>1, DesktopAssumption, AutosaveNext, AutosaveStutter DEF DesktopIInv
<1>5. LibraryIInv' /\ visits' \in Nat
  BY <1>1, LibraryNext, LibraryStutter, LibraryVisits DEF DesktopIInv
<1>6. GapInv' /\ RowsInv'
  BY <1>1, DesktopAssumption, StepKeepsGapInv, StepKeepsRowsInv DEF DesktopIInv
<1>7. QED
  BY <1>2, <1>3, <1>4, <1>5, <1>6 DEF DesktopIInv

LEMMA DesktopInvariant == DesktopSpec => []DesktopIInv
BY DesktopInitial, DesktopStep, PTL DEF DesktopSpec

\* The gate of App.tsx lets one request for the status through at a time, the
\* service pages' drafts, guard and catalog agree, what the routing page saves
\* is valid, the safety page asks for what it shows as downloading, and the rows
\* of the list of conversations are Core's or older ones, whatever the others do.
THEOREM PartsAreKept == DesktopSpec => []DesktopInv
<1>1. DesktopIInv => DesktopInv
  BY AutosaveImplies, LibraryImplies, RowsImply DEF DesktopIInv, DesktopInv, GapInv
<1>2. QED
  BY <1>1, DesktopInvariant, PTL

\* No list that the window will accept is older than a change it was told of,
\* whatever the order in which Core's answers arrive (App.tsx, rememberService).
THEOREM ReadsAreNewEnough == DesktopSpec => []ReadsKnowAcknowledged
<1>1. DesktopIInv => ReadsKnowAcknowledged
  BY DEF DesktopIInv, ReadsKnowAcknowledged, Services!PagesInv
<1>2. QED
  BY <1>1, DesktopInvariant, PTL

\* The draft on screen is that of the page shown, and the host is told of
\* unsaved edits exactly while there are some (App.tsx, editorDirtyRef).
THEOREM DraftsAreOfThePage ==
    DesktopSpec => [](Services!EditorMatchesPage /\ Services!DirtyMeansUnsaved)
<1>1. DesktopIInv => Services!EditorMatchesPage /\ Services!DirtyMeansUnsaved
  BY DEF DesktopIInv, Services!PagesInv
<1>2. QED
  BY <1>1, DesktopInvariant, PTL

\* The list of conversations has no hole, also next to the other parts
\* (RequestRecords.tsx).
THEOREM WindowListIsWhole == DesktopSpec => []ListHasNoGap
<1>1. DesktopIInv => ListHasNoGap
  BY DEF DesktopIInv, GapInv, Whole, Emptied, ListHasNoGap
<1>2. QED
  BY <1>1, DesktopInvariant, PTL

\* The window never shows an older state of Core after a newer one, as long as
\* no answer has come past the gate from the settings page (request-gate.ts).
THEOREM StatusNeverGoesBack == DesktopSpec => SnapshotNeverGoesBack
<1>1. DesktopIInv /\ [DesktopNext]_desktopVars =>
        [~beside' => snapshot' >= snapshot]_(Status!vars)
  BY PartSteps, StatusGrows DEF DesktopIInv
<1>2. QED
  BY <1>1, DesktopInvariant, PTL
     DEF DesktopSpec, SnapshotNeverGoesBack, Status!SnapshotNeverGoesBack

\* On the routing page, no step but an edit of the user changes a setting that is
\* not saved, where an autosave that overlaps a reading is the exception
\* (RoutingSettingsPanel.tsx).  The edits of a service's editor go in the ways of
\* EditsGo only: confirmed, taken back, cleared with the key of a save that failed,
\* or by an answer that shows the list (App.tsx, ServiceManager.tsx).
THEOREM EditsStay == DesktopSpec => EditsAreKept
<1> DEFINE RoutingKeeps ==
             \A k \in Routing!Setting :
                loaded /\ draft[k] # baseline[k] /\ draft'[k] # draft[k] /\ edits' = edits
                  => routingSaving /\ rebased
<1>1. DesktopIInv /\ [DesktopNext]_desktopVars => [RoutingKeeps]_(Routing!vars)
  BY PartSteps, AutosaveKeeps DEF DesktopIInv, Keeps
<1>2. DesktopIInv /\ [DesktopNext]_desktopVars =>
        [editor.typed /\ ~editor'.typed => Services!EditsGo]_(Services!vars)
  BY DesktopAssumption, PartSteps, StepKeepsEdits DEF DesktopIInv
<1>3. QED
  BY <1>1, <1>2, DesktopInvariant, PTL
     DEF DesktopSpec, EditsAreKept, Routing!EditsAreKept, Services!EditsNeedConfirmation

\* What the safety page shows of a model is never replaced by an older state
\* within a visit, whatever the order of the answers of the list, the polls and
\* the operator's calls, if the operator waits for the list (SafetyPolicy.tsx).
THEOREM ModelsNeverGoBack == ASSUME ~Early PROVE DesktopSpec => RowsNeverGoBack
<1>1. DesktopIInv /\ [DesktopNext]_desktopVars =>
        [visits' = visits /\ load.phase = "idle" /\ ~left =>
            \A m \in Model : rows'[m].changes >= rows[m].changes]_(Safety!vars)
  BY PartSteps, LibraryGrows DEF DesktopIInv
<1>2. QED
  BY <1>1, DesktopInvariant, PTL DEF DesktopSpec, RowsNeverGoBack, Safety!RowsNeverGoBack
=============================================================================
