--------------------- MODULE SubscriptionTokens_proofs ---------------------
(***************************************************************************)
(* Proofs about the tokens of subscriptions, for any services, provider    *)
(* accounts, callers and any number of logins, refreshes and sign-outs.    *)
(*                                                                         *)
(* Of one service the invariant (Local) says how the operations under way  *)
(* fit together and, while two attempts of that service have not met       *)
(* (crossed), that the attempt is that of the beginning under way          *)
(* (Attempted, Accepted), that who replaces or removes the credential has  *)
(* it for itself or waits to (Alone), and what status, owner and credential*)
(* say of each other in every step of an operation (Unconnected, SignedOut,*)
(* Usable).  A step is of one service and leaves the others as they are    *)
(* (Elsewhere), so that one lemma for each action, about that service, is  *)
(* enough (Together).                                                      *)
(*                                                                         *)
(* That no two services share a provider account rests on the reservation  *)
(* (pendingProviderAccounts): it is the service's own from the moment it is*)
(* taken until the login is over, it is the only one (Reserved), and it    *)
(* keeps every other service off the account (KeptFree).                   *)
(***************************************************************************)
EXTENDS SubscriptionTokens, TLAPS

\* The types of what is kept for a service, an account or a caller.
Statuses == {"disconnected", "authorizing", "connected", "needs_reauth"}
Attempts == [id : Nat, starting : BOOLEAN, session : Nat, completed : BOOLEAN]
Sessions ==
    [id : Nat, state : {"none", "pending", "completing", "ended", "completed"}]
Beginnings ==
    [phase : {"idle", "reserved", "off", "marked", "begun"}, id : Nat, was : Statuses,
     had : ProviderAccount \cup {NoAccount}]
Logins ==
    [phase : {"idle", "signed", "reserved", "off", "put", "connected", "superseded",
              "active", "failed"},
     session : Nat, account : ProviderAccount \cup {NoAccount}]
Cancels == [phase : {"idle", "cancelled", "ended"}, session : Nat]
Callers ==
    [phase : {"idle", "asked", "read", "used"}, service : Service,
     got : [login : Nat, renewed : Nat]]
Calls ==
    [phase : {"none", "asked", "renewed", "rejected"}, generation : Nat,
     from : [login : Nat, renewed : Nat]]

TypeOK ==
    /\ status \in [Service -> Statuses]
    /\ owner \in [Service -> ProviderAccount \cup {NoAccount}]
    /\ stored \in [Service -> [login : Nat, renewed : Nat]]
    /\ lifecycle \in [Service -> [generation : Nat, invalidated : BOOLEAN]]
    /\ inflight \in [Service -> Calls]
    /\ waits \in [Service -> SUBSET {"begin", "login", "logout"}]
    /\ callers \in [Caller -> Callers]
    /\ attempt \in [Service -> Attempts] /\ session \in [Service -> Sessions]
    /\ pending \in [ProviderAccount -> SUBSET Service]
    /\ transition \in [Service -> BOOLEAN]
    /\ begin \in [Service -> Beginnings] /\ login \in [Service -> Logins]
    /\ logout \in [Service -> {"idle", "started", "cleared", "off", "removed"}]
    /\ cancel \in [Service -> Cancels]
    /\ crossed \in SUBSET Service /\ left \in SUBSET Service
    /\ started \in Nat /\ signOuts \in Nat /\ refreshes \in Nat /\ faults \in Nat

\* The numbers of logins and refreshes are those handed out so far.
Bounded ==
    /\ started <= MaxLogins /\ refreshes <= MaxRefreshes
    /\ \A c \in Caller : callers[c].got.login <= started /\ callers[c].got.renewed <= refreshes
Counted(s) ==
    /\ begin[s].id <= started /\ session[s].id <= started /\ cancel[s].session <= started
    /\ stored[s].login <= started /\ stored[s].renewed <= refreshes
    /\ inflight[s].from.login <= started
    /\ inflight[s] # NoCall => inflight[s].from.renewed < refreshes

\* What is under way of the operations of a service fits together.
Operations(s) ==
    /\ (transition[s] <=> logout[s] # "idle")
    /\ ~At(s, "idle") =>
         /\ session[s].state = "completing" /\ login[s].session = session[s].id
         /\ login[s].account \in ProviderAccount
    /\ inflight[s] = NoCall => waits[s] = {}
    /\ inflight[s].phase = "none" => inflight[s] = NoCall

\* The attempt is that of the beginning under way, whose session is a new one, and
\* what is found to have ended does not come back.
Attempted(s) ==
    /\ session[s].state # "none" => session[s].id # 0
    /\ attempt[s].id = 0 => attempt[s] = NoAttempt
    /\ attempt[s].session \in {0, attempt[s].id}
    /\ begin[s].phase # "idle" => begin[s].id # 0 /\ attempt[s].id \in {0, begin[s].id}
    /\ begin[s].phase \in {"reserved", "off", "marked"} => session[s].id < begin[s].id
    /\ begin[s].phase = "begun" => session[s].id = begin[s].id
    /\ attempt[s].starting => begin[s].phase # "idle" \/ logout[s] = "started"
    /\ attempt[s].completed =>
         session[s].id = attempt[s].id /\ session[s].state # "pending"
    /\ cancel[s] # NoCancel =>
         /\ cancel[s].session <= session[s].id
         /\ cancel[s].session = session[s].id =>
              session[s].state \notin {"pending", "completing"}

\* A login that was let through goes on under the attempt of its own session, until
\* it is connected, and a sign-out waits for it.
Storing == {"reserved", "off", "put", "superseded"}
Accepted(s) ==
    /\ login[s].phase \in Storing =>
         attempt[s].id = login[s].session /\ ~attempt[s].completed
    /\ At(s, "signed") => ~attempt[s].completed
    /\ At(s, "superseded") => logout[s] = "started"
    /\ logout[s] \in {"cleared", "off", "removed"} =>
         attempt[s] = NoAttempt /\ login[s].phase \in {"idle", "signed", "failed"}

\* Who replaces or removes the credential has it for itself, or waits to.
Alone(s) ==
    /\ login[s].phase \in {"off", "put", "superseded"} => Invalid(s)
    /\ logout[s] \in {"off", "removed"} => Invalid(s)
    /\ At(s, "off") => "login" \in waits[s] \/ inflight[s] = NoCall
    /\ login[s].phase \in {"put", "superseded"} => inflight[s] = NoCall
    /\ logout[s] = "off" => "logout" \in waits[s] \/ inflight[s] = NoCall
    /\ logout[s] = "removed" => inflight[s] = NoCall /\ stored[s] = None

\* An account somebody signs in to is not shown as connected before the login is
\* stored.
Unconnected(s) ==
    /\ begin[s].phase = "marked" => status[s] # "connected"
    /\ session[s].state \in {"pending", "completing"}
       /\ login[s].phase \notin {"connected", "active"} =>
         /\ status[s] # "connected"
         /\ begin[s].phase = "marked" => begin[s].was # "connected"

\* Who is not signed in has no credential, and nobody who could renew one, unless the
\* removal of a superseded login's credential failed.
SignedOut(s) ==
    /\ begin[s].phase = "marked" /\ Mine(s) => begin[s].had = owner[s]
    /\ begin[s].was = "connected" => begin[s].had # NoAccount
    /\ login[s].phase \in {"connected", "active"} => owner[s] # NoAccount
    /\ owner[s] = NoAccount =>
         /\ status[s] # "connected" /\ inflight[s] = NoCall
         /\ \/ Invalid(s)
            \/ \A c \in Caller :
                 callers[c].service = s => callers[c].phase \notin {"asked", "read"}
         /\ login[s].phase \notin {"put", "superseded"} /\ s \notin left => stored[s] = None

\* A credential that was left behind is gone before anybody is connected again.
LeftBehind(s) ==
    /\ At(s, "put") => s \notin left
    /\ s \in left =>
         /\ status[s] # "connected"
         /\ begin[s].phase = "marked" => begin[s].was # "connected"

\* Who is connected has a credential and the use of it.
Usable(s) ==
    /\ At(s, "put") => stored[s] # None
    /\ faults = 0 =>
        /\ status[s] = "connected" => stored[s] # None \/ transition[s]
        /\ begin[s].phase = "marked" /\ Mine(s) /\ begin[s].was = "connected" =>
             stored[s] # None
        /\ begin[s].phase \in {"reserved", "off"} /\ ~Mine(s) =>
             transition[s] \/ status[s] # "connected"
        /\ status[s] = "connected" /\ ~transition[s] /\ Invalid(s) =>
             \/ begin[s].phase = "off" \/ At(s, "connected")
             \/ inflight[s].phase = "rejected"

\* What holds of a service; the rest of it while its attempts have not met.
Apart(s) ==
    /\ Attempted(s) /\ Accepted(s) /\ Alone(s)
    /\ Unconnected(s) /\ SignedOut(s) /\ LeftBehind(s) /\ Usable(s)
Local(s) == Counted(s) /\ Operations(s) /\ (s \notin crossed => Apart(s))

TokensIInv == TypeOK /\ Bounded /\ \A s \in Service : Local(s)

\* What the types say of a service.
Typed(s) ==
    /\ status[s] \in Statuses /\ owner[s] \in ProviderAccount \cup {NoAccount}
    /\ stored[s] \in [login : Nat, renewed : Nat]
    /\ lifecycle[s] \in [generation : Nat, invalidated : BOOLEAN]
    /\ inflight[s] \in Calls /\ waits[s] \in SUBSET {"begin", "login", "logout"}
    /\ attempt[s] \in Attempts /\ session[s] \in Sessions /\ transition[s] \in BOOLEAN
    /\ begin[s] \in Beginnings /\ login[s] \in Logins /\ cancel[s] \in Cancels
    /\ logout[s] \in {"idle", "started", "cleared", "off", "removed"}

\* The numbers it holds, apart from the records they are in.
Numbers(s) ==
    /\ attempt[s].id \in Nat /\ attempt[s].session \in Nat /\ session[s].id \in Nat
    /\ begin[s].id \in Nat /\ login[s].session \in Nat /\ cancel[s].session \in Nat
    /\ stored[s].login \in Nat /\ stored[s].renewed \in Nat
    /\ inflight[s].from.login \in Nat /\ inflight[s].from.renewed \in Nat
    /\ started \in Nat /\ refreshes \in Nat /\ faults \in Nat

LEMMA TypedAt == ASSUME TypeOK, NEW s \in Service PROVE Typed(s) /\ Numbers(s)
<1>1. Typed(s)
  BY DEF TypeOK, Typed
<1>2. started \in Nat /\ refreshes \in Nat /\ faults \in Nat
  BY DEF TypeOK
<1>3. QED
  BY <1>1, <1>2 DEF Typed, Numbers, Attempts, Sessions, Beginnings, Logins, Cancels, Calls

\* A step of s leaves the other services as they are.
Elsewhere(s) ==
    /\ \A t \in Service \ {s} :
        /\ status'[t] = status[t] /\ owner'[t] = owner[t] /\ stored'[t] = stored[t]
        /\ lifecycle'[t] = lifecycle[t] /\ inflight'[t] = inflight[t] /\ waits'[t] = waits[t]
        /\ attempt'[t] = attempt[t] /\ session'[t] = session[t]
        /\ transition'[t] = transition[t] /\ begin'[t] = begin[t] /\ login'[t] = login[t]
        /\ logout'[t] = logout[t] /\ cancel'[t] = cancel[t]
        /\ (t \in crossed => t \in crossed') /\ (t \in left' <=> t \in left)
    /\ faults' = 0 => faults = 0
    /\ started <= started' /\ refreshes <= refreshes'
    /\ \A c \in Caller : callers'[c] \in {callers[c], NoCaller} \/ callers'[c].service = s

\* A service that is not the one that moved keeps its part of the invariant.
LEMMA ElsewhereKept ==
    ASSUME TypeOK, TypeOK', NEW s \in Service, Elsewhere(s), NEW t \in Service \ {s}, Local(t)
    PROVE  Local(t)'
<1>1. Counted(t)'
  <2>1. /\ begin'[t] = begin[t] /\ session'[t] = session[t] /\ cancel'[t] = cancel[t]
        /\ stored'[t] = stored[t]
        /\ inflight'[t] = inflight[t] /\ started <= started' /\ refreshes <= refreshes'
    BY DEF Elsewhere
  <2>2. /\ begin[t].id \in Nat /\ session[t].id \in Nat /\ cancel[t].session \in Nat
        /\ stored[t].login \in Nat
        /\ stored[t].renewed \in Nat /\ inflight[t].from.login \in Nat
        /\ inflight[t].from.renewed \in Nat
    BY DEF TypeOK, Beginnings, Sessions, Cancels, Calls
  <2>3. started \in Nat /\ started' \in Nat /\ refreshes \in Nat /\ refreshes' \in Nat
    BY DEF TypeOK
  <2>4. QED
    BY <2>1, <2>2, <2>3 DEF Counted, Local
<1>2. Operations(t)'
  BY DEF Elsewhere, Local, Operations, At
<1>3. ASSUME t \notin crossed' PROVE Apart(t)'
  <2>1. Apart(t)
    BY <1>3 DEF Elsewhere, Local
  <2>2. Attempted(t)' /\ Accepted(t)'
    BY <2>1 DEF Elsewhere, Apart, Attempted, Accepted, At
  <2>3. Alone(t)' /\ Unconnected(t)'
    BY <2>1 DEF Elsewhere, Apart, Alone, Unconnected, At, Invalid
  <2>4. SignedOut(t)' /\ LeftBehind(t)'
    BY <2>1 DEF Elsewhere, Apart, SignedOut, LeftBehind, At, Mine, Invalid, NoCaller
  <2>5. Usable(t)'
    BY <2>1 DEF Elsewhere, Apart, Usable, Mine, Invalid, At
  <2>6. QED
    BY <2>2, <2>3, <2>4, <2>5 DEF Apart
<1>4. QED
  BY <1>1, <1>2, <1>3 DEF Local

\* The invariant of the service that moved, and of the others, make up the whole.
LEMMA Together ==
    ASSUME TokensIInv, NEW s \in Service, TypeOK', Bounded', Elsewhere(s), Local(s)'
    PROVE  TokensIInv'
BY ElsewhereKept DEF TokensIInv

USE DEF Set, account, source, operations, counters

\* Switching a service's tokens off keeps the types.
LEMMA InvalidateTyped ==
    ASSUME TypeOK, NEW s \in Service, NEW op \in {"begin", "login", "logout"}, Invalidate(s, op)
    PROVE  /\ lifecycle' \in [Service -> [generation : Nat, invalidated : BOOLEAN]]
           /\ waits' \in [Service -> SUBSET {"begin", "login", "logout"}]
<1>1. waits[s] \cup {op} \in SUBSET {"begin", "login", "logout"}
  BY DEF TypeOK
<1>2. waits' \in [Service -> SUBSET {"begin", "login", "logout"}]
  BY <1>1 DEF TypeOK, Invalidate
<1>3. lifecycle' \in [Service -> [generation : Nat, invalidated : BOOLEAN]]
  BY DEF TypeOK, Invalidate, Moved
<1>4. QED
  BY <1>2, <1>3

\* A login that goes on, and a session that ends, keep their types.
LEMMA LoginTyped ==
    ASSUME TypeOK, NEW s \in Service, NEW phase, To(s, phase),
           phase \in {"idle", "signed", "reserved", "off", "put", "connected", "superseded",
                      "active", "failed"}
    PROVE  login' \in [Service -> Logins]
<1>1. login \in [Service -> Logins] /\ login[s] \in Logins
  BY DEF TypeOK
<1>2. [login[s] EXCEPT !.phase = phase] \in Logins
  BY <1>1 DEF Logins
<1>3. login' = [login EXCEPT ![s] = [login[s] EXCEPT !.phase = phase]]
  BY DEF To
<1>4. QED
  BY <1>1, <1>2, <1>3

LEMMA SessionTyped ==
    ASSUME TypeOK, NEW s \in Service,
           session' = [session EXCEPT ![s] = [session[s] EXCEPT !.state = "ended"]]
    PROVE  session' \in [Service -> Sessions]
<1>1. session \in [Service -> Sessions] /\ session[s] \in Sessions
  BY DEF TypeOK
<1>2. [session[s] EXCEPT !.state = "ended"] \in Sessions
  BY <1>1 DEF Sessions
<1>3. QED
  BY <1>1, <1>2

-----------------------------------------------------------------------------
\* Starting an authorization.  In this lemma and those that follow, one for each
\* action, the types and the other services come first, then what the action does
\* to its service, then the parts of the invariant it can disturb.
LEMMA ReserveAttemptKeeps ==
    ASSUME TokensIInv, NEW s \in Service, ReserveAttempt(s)
    PROVE  TokensIInv'
<1>1. TypeOK /\ Local(s) /\ Typed(s) /\ Numbers(s)
  BY TypedAt DEF TokensIInv
<1>2. started' = started + 1 /\ started' \in Nat /\ started' <= MaxLogins
  BY <1>1, TokensAssumption DEF Numbers, TokensAssumption, ReserveAttempt
<1>3. TypeOK'
  <2>1. attempt' \in [Service -> Attempts]
    <3>1. [NoAttempt EXCEPT !.id = started', !.starting = TRUE] \in Attempts
      BY <1>1, <1>2 DEF Typed, Numbers, Attempts, NoAttempt
    <3>2. QED
      BY <3>1 DEF TokensIInv, TypeOK, ReserveAttempt
  <2>2. begin' \in [Service -> Beginnings]
    <3>1. [Idle EXCEPT !.phase = "reserved", !.id = started'] \in Beginnings
      BY <1>1, <1>2 DEF Typed, Numbers, Beginnings, Idle, Statuses
    <3>2. QED
      BY <3>1 DEF TokensIInv, TypeOK, ReserveAttempt
  <2>3. started' \in Nat
    BY DEF TokensIInv, TypeOK, ReserveAttempt
  <2>4. QED
    BY <2>1, <2>2, <2>3 DEF TokensIInv, TypeOK, ReserveAttempt
<1>4. Bounded'
  BY <1>1, <1>2 DEF TokensIInv, TypeOK, Bounded, ReserveAttempt, Callers
<1>5. Elsewhere(s)
  BY DEF TokensIInv, TypeOK, Elsewhere, ReserveAttempt
<1>6. /\ begin[s].phase = "idle" /\ ~transition[s] /\ attempt[s] = NoAttempt
      /\ started' = started + 1 /\ refreshes' = refreshes
      /\ status'[s] = status[s] /\ owner'[s] = owner[s] /\ stored'[s] = stored[s]
      /\ lifecycle'[s] = lifecycle[s] /\ inflight'[s] = inflight[s] /\ waits'[s] = waits[s]
      /\ session'[s] = session[s] /\ transition'[s] = transition[s] /\ login'[s] = login[s]
      /\ logout'[s] = logout[s] /\ cancel'[s] = cancel[s]
      /\ callers' = callers /\ (faults' = 0 => faults = 0) /\ left' = left
  BY DEF ReserveAttempt
<1>7. /\ attempt'[s].id = started + 1 /\ attempt'[s].starting /\ attempt'[s].session = 0
      /\ ~attempt'[s].completed
      /\ begin'[s].phase = "reserved" /\ begin'[s].id = started + 1
      /\ begin'[s].was = "disconnected" /\ begin'[s].had = NoAccount
  <2>1. attempt'[s] = [NoAttempt EXCEPT !.id = started', !.starting = TRUE]
    BY DEF TokensIInv, TypeOK, ReserveAttempt
  <2>2. begin'[s] = [Idle EXCEPT !.phase = "reserved", !.id = started']
    BY DEF TokensIInv, TypeOK, ReserveAttempt
  <2>3. QED
    BY <1>1, <1>6, <2>1, <2>2 DEF NoAttempt, Idle
<1>8. Counted(s)'
  BY <1>1, <1>6, <1>7 DEF Numbers, Counted, Local
<1>9. Operations(s)'
  BY <1>1, <1>6, <1>7 DEF Operations, Local, At
<1>10. s \in crossed => s \in crossed'
  BY DEF ReserveAttempt, Meets
<1>11. ASSUME s \notin crossed' PROVE Apart(s)'
  <2>1. Apart(s) /\ Operations(s) /\ Counted(s)
    BY <1>1, <1>11, <1>10 DEF Local
  <2>2. Attempted(s)'
    BY <1>1, <1>6, <1>7, <1>11, <2>1 DEF Numbers, Apart, Attempted, Counted
  <2>3. Accepted(s)'
    BY <1>1, <1>6, <1>7, <1>11, <2>1
       DEF Apart, Operations, At, Storing, Attempted, Accepted, NoAttempt
  <2>4. Alone(s)'
    BY <1>1, <1>6, <1>7, <1>11, <2>1 DEF Apart, At, Invalid, Alone
  <2>5. Unconnected(s)'
    BY <1>1, <1>6, <1>7, <1>11, <2>1 DEF Apart, Unconnected
  <2>6. SignedOut(s)' /\ LeftBehind(s)'
    BY <1>1, <1>6, <1>7, <1>11, <2>1 DEF Apart, Invalid, SignedOut, LeftBehind, At
  <2>7. Usable(s)'
    BY <1>1, <1>6, <1>7, <1>11, <2>1 DEF Numbers, Apart, At, Mine, Invalid, Usable
  <2>8. QED
    BY <2>2, <2>3, <2>4, <2>5, <2>6, <2>7 DEF Apart
<1>12. QED
  BY <1>3, <1>4, <1>5, <1>8, <1>9, <1>11, Together DEF Local

LEMMA InvalidateForBeginKeeps ==
    ASSUME TokensIInv, NEW s \in Service, InvalidateForBegin(s)
    PROVE  TokensIInv'
<1>1. TypeOK /\ Local(s) /\ Typed(s) /\ Numbers(s)
  BY TypedAt DEF TokensIInv
<1>2. TypeOK'
  <2>1. /\ lifecycle' \in [Service -> [generation : Nat, invalidated : BOOLEAN]]
        /\ waits' \in [Service -> SUBSET {"begin", "login", "logout"}]
    BY InvalidateTyped DEF TokensIInv, InvalidateForBegin
  <2>2. begin' \in [Service -> Beginnings]
    <3>1. [begin[s] EXCEPT !.phase = "off"] \in Beginnings
      BY <1>1 DEF Typed, Beginnings
    <3>2. QED
      BY <3>1 DEF TokensIInv, TypeOK, InvalidateForBegin
  <2>3. QED
    BY <2>1, <2>2 DEF TokensIInv, TypeOK, InvalidateForBegin, Invalidate
<1>3. Bounded'
  BY DEF TokensIInv, Bounded, InvalidateForBegin
<1>4. Elsewhere(s)
  BY DEF TokensIInv, TypeOK, Elsewhere, InvalidateForBegin, Invalidate, Moved
<1>5. Local(s)'
  BY DEF TokensIInv, TypeOK, Local, Counted, Operations, Apart, Attempted, Accepted, Alone,
         Unconnected, SignedOut, LeftBehind, Usable, Mine, At, Invalid, InvalidateForBegin, Invalidate,
         Moved
<1>6. QED
  BY <1>2, <1>3, <1>4, <1>5, Together

LEMMA MarkAuthorizingKeeps ==
    ASSUME TokensIInv, NEW s \in Service, MarkAuthorizing(s)
    PROVE  TokensIInv'
<1>1. TypeOK /\ Local(s) /\ Typed(s) /\ Numbers(s)
  BY TypedAt DEF TokensIInv
<1>2. TypeOK'
  <2>1. status' \in [Service -> Statuses]
    BY DEF TokensIInv, TypeOK, MarkAuthorizing, Statuses
  <2>2. attempt' \in [Service -> Attempts]
    <3>1. NoAttempt \in Attempts
      BY <1>1 DEF Attempts, NoAttempt
    <3>2. QED
      BY <3>1 DEF TokensIInv, TypeOK, MarkAuthorizing, To, Mine
  <2>3. begin' \in [Service -> Beginnings]
    <3>1. [phase |-> "marked", id |-> begin[s].id, was |-> status[s], had |-> owner[s]] \in Beginnings
      BY <1>1 DEF Typed, Beginnings
    <3>2. Idle \in Beginnings
      BY <1>1 DEF Beginnings, Idle, Statuses
    <3>3. QED
      BY <3>1, <3>2 DEF TokensIInv, TypeOK, MarkAuthorizing, Mine
  <2>4. QED
    BY <2>1, <2>2, <2>3 DEF TokensIInv, TypeOK, MarkAuthorizing
<1>3. Bounded'
  BY DEF TokensIInv, Bounded, MarkAuthorizing
<1>4. Elsewhere(s)
  BY DEF TokensIInv, TypeOK, Elsewhere, MarkAuthorizing
<1>5. /\ begin[s].phase = "off"
      /\ owner'[s] = owner[s] /\ stored'[s] = stored[s] /\ lifecycle'[s] = lifecycle[s]
      /\ inflight'[s] = inflight[s] /\ waits'[s] = waits[s] /\ session'[s] = session[s]
      /\ transition'[s] = transition[s] /\ login'[s] = login[s] /\ logout'[s] = logout[s]
      /\ cancel'[s] = cancel[s]
      /\ callers' = callers /\ (faults' = 0 => faults = 0) /\ left' = left
      /\ started' = started /\ refreshes' = refreshes
  BY DEF MarkAuthorizing
<1>6. /\ Mine(s) /\ ~transition[s] =>
            /\ status'[s] = "authorizing" /\ attempt'[s] = attempt[s]
            /\ begin'[s].phase = "marked" /\ begin'[s].id = begin[s].id
            /\ begin'[s].was = status[s] /\ begin'[s].had = owner[s]
      /\ ~(Mine(s) /\ ~transition[s]) =>
            /\ status'[s] = status[s] /\ begin'[s] = Idle
            /\ attempt'[s] = IF Mine(s) THEN NoAttempt ELSE attempt[s]
  <2>1. Mine(s) /\ ~transition[s] =>
          begin'[s] = [phase |-> "marked", id |-> begin[s].id, was |-> status[s], had |-> owner[s]]
    BY DEF TokensIInv, TypeOK, MarkAuthorizing
  <2>2. Mine(s) /\ ~transition[s] => status'[s] = "authorizing" /\ attempt'[s] = attempt[s]
    BY DEF TokensIInv, TypeOK, MarkAuthorizing
  <2>3. ~(Mine(s) /\ ~transition[s]) => status'[s] = status[s] /\ begin'[s] = Idle
    BY DEF TokensIInv, TypeOK, MarkAuthorizing
  <2>4. ~(Mine(s) /\ ~transition[s]) => attempt'[s] = IF Mine(s) THEN NoAttempt ELSE attempt[s]
    BY DEF TokensIInv, TypeOK, MarkAuthorizing
  <2>5. QED
    BY <1>1, <1>5, <2>1, <2>2, <2>3, <2>4
<1>7. Counted(s)'
  BY <1>1, <1>5, <1>6 DEF Numbers, Counted, Local, Idle
<1>8. Operations(s)'
  BY <1>1, <1>5, <1>6 DEF Operations, Local, At
<1>9. s \in crossed => s \in crossed'
  BY DEF MarkAuthorizing, Mine, Meets
<1>10. ASSUME s \notin crossed' PROVE Apart(s)'
  <2>1. Apart(s) /\ Operations(s) /\ Counted(s)
    BY <1>1, <1>10, <1>9 DEF Local
  <2>2. Attempted(s)'
    BY <1>1, <1>5, <1>6, <1>10, <2>1 DEF Apart, Mine, Attempted, Idle, NoAttempt
  <2>3. Accepted(s)'
    BY <1>1, <1>5, <1>6, <1>10, <2>1
       DEF Numbers, Apart, Operations, At, Storing, Attempted, Accepted, NoAttempt
  <2>4. Alone(s)'
    BY <1>1, <1>5, <1>6, <1>10, <2>1 DEF Apart, At, Invalid, Alone
  <2>5. Unconnected(s)'
    BY <1>1, <1>5, <1>6, <1>10, <2>1 DEF Apart, Unconnected, Idle
  <2>6. SignedOut(s)' /\ LeftBehind(s)'
    BY <1>1, <1>5, <1>6, <1>10, <2>1 DEF Apart, Invalid, SignedOut, LeftBehind, At, Idle
  <2>7. Usable(s)'
    BY <1>1, <1>5, <1>6, <1>10, <2>1 DEF Apart, At, Usable, Idle
  <2>8. QED
    BY <2>2, <2>3, <2>4, <2>5, <2>6, <2>7 DEF Apart
<1>11. QED
  BY <1>2, <1>3, <1>4, <1>7, <1>8, <1>10, Together DEF Local

LEMMA StartSessionKeeps ==
    ASSUME TokensIInv, NEW s \in Service, StartSession(s)
    PROVE  TokensIInv'
<1>1. TypeOK /\ Local(s) /\ Typed(s) /\ Numbers(s)
  BY TypedAt DEF TokensIInv
<1>2. TypeOK'
  <2>1. session' \in [Service -> Sessions]
    <3>1. [id |-> begin[s].id, state |-> "pending"] \in Sessions
      BY <1>1 DEF Typed, Numbers, Sessions
    <3>2. QED
      BY <3>1 DEF TokensIInv, TypeOK, StartSession
  <2>2. begin' \in [Service -> Beginnings]
    <3>1. [begin[s] EXCEPT !.phase = "begun", !.was = Idle.was, !.had = Idle.had] \in Beginnings
      BY <1>1 DEF Typed, Numbers, Beginnings, Idle, Statuses
    <3>2. QED
      BY <3>1 DEF TokensIInv, TypeOK, StartSession
  <2>3. QED
    BY <2>1, <2>2 DEF TokensIInv, TypeOK, StartSession
<1>3. Bounded'
  BY DEF TokensIInv, Bounded, StartSession
<1>4. Elsewhere(s)
  BY DEF TokensIInv, TypeOK, Elsewhere, StartSession
<1>5. /\ begin[s].phase = "marked"
      /\ session[s].state \notin {"pending", "completing"}
      /\ status'[s] = status[s] /\ owner'[s] = owner[s] /\ stored'[s] = stored[s]
      /\ lifecycle'[s] = lifecycle[s] /\ inflight'[s] = inflight[s] /\ waits'[s] = waits[s]
      /\ attempt'[s] = attempt[s] /\ transition'[s] = transition[s] /\ login'[s] = login[s]
      /\ logout'[s] = logout[s] /\ cancel'[s] = cancel[s]
      /\ callers' = callers /\ (faults' = 0 => faults = 0) /\ left' = left
      /\ started' = started /\ refreshes' = refreshes
  BY DEF StartSession
<1>6. /\ session'[s].id = begin[s].id /\ session'[s].state = "pending"
      /\ begin'[s].phase = "begun" /\ begin'[s].id = begin[s].id
      /\ begin'[s].was = "disconnected" /\ begin'[s].had = NoAccount
  <2>1. session'[s] = [id |-> begin[s].id, state |-> "pending"]
    BY DEF TokensIInv, TypeOK, StartSession
  <2>2. begin'[s] = [begin[s] EXCEPT !.phase = "begun", !.was = Idle.was, !.had = Idle.had]
    BY DEF TokensIInv, TypeOK, StartSession
  <2>3. QED
    BY <1>1, <1>5, <2>1, <2>2 DEF Idle
<1>7. Counted(s)'
  BY <1>1, <1>5, <1>6 DEF Counted, Local
<1>8. Operations(s)'
  BY <1>1, <1>5, <1>6 DEF Operations, Local, At
<1>9. s \in crossed => s \in crossed'
  BY DEF StartSession, Meets
<1>10. ASSUME s \notin crossed' PROVE Apart(s)'
  <2>1. Apart(s) /\ Operations(s) /\ Counted(s)
    BY <1>1, <1>10, <1>9 DEF Local
  <2>2. Attempted(s)'
    BY <1>1, <1>5, <1>6, <1>10, <2>1 DEF Numbers, Apart, Attempted, NoAttempt
  <2>3. Accepted(s)'
    BY <1>1, <1>5, <1>6, <1>10, <2>1 DEF Apart, At, Accepted
  <2>4. Alone(s)'
    BY <1>1, <1>5, <1>6, <1>10, <2>1 DEF Apart, At, Invalid, Alone
  <2>5. Unconnected(s)'
    BY <1>1, <1>5, <1>6, <1>10, <2>1 DEF Apart, Unconnected
  <2>6. SignedOut(s)' /\ LeftBehind(s)'
    BY <1>1, <1>5, <1>6, <1>10, <2>1 DEF Apart, Invalid, SignedOut, LeftBehind, At
  <2>7. Usable(s)'
    BY <1>1, <1>5, <1>6, <1>10, <2>1 DEF Apart, At, Usable, Unconnected
  <2>8. QED
    BY <2>2, <2>3, <2>4, <2>5, <2>6, <2>7 DEF Apart
<1>11. QED
  BY <1>2, <1>3, <1>4, <1>7, <1>8, <1>10, Together DEF Local

LEMMA SessionFailsKeeps ==
    ASSUME TokensIInv, NEW s \in Service, SessionFails(s)
    PROVE  TokensIInv'
<1>1. TypeOK /\ Local(s) /\ Typed(s) /\ Numbers(s)
  BY TypedAt DEF TokensIInv
<1>2. TypeOK'
  <2>1. attempt' \in [Service -> Attempts]
    <3>1. attempt \in [Service -> Attempts] /\ NoAttempt \in Attempts
      BY <1>1 DEF TypeOK, Attempts, NoAttempt
    <3>2. attempt' \in {attempt, [attempt EXCEPT ![s] = NoAttempt]}
      BY DEF SessionFails
    <3>3. QED
      BY <3>1, <3>2
  <2>2. status' \in [Service -> Statuses]
    <3>1. status \in [Service -> Statuses] /\ begin[s].was \in Statuses
      BY <1>1 DEF TypeOK, Typed, Beginnings
    <3>2. status' \in {status, [status EXCEPT ![s] = begin[s].was]}
      BY DEF SessionFails, Restored
    <3>3. QED
      BY <3>1, <3>2
  <2>3. owner' \in [Service -> ProviderAccount \cup {NoAccount}]
    <3>1. /\ owner \in [Service -> ProviderAccount \cup {NoAccount}]
          /\ begin[s].had \in ProviderAccount \cup {NoAccount}
      BY <1>1 DEF TypeOK, Typed, Beginnings
    <3>2. owner' \in {owner, [owner EXCEPT ![s] = begin[s].had]}
      BY DEF SessionFails, Restored
    <3>3. QED
      BY <3>1, <3>2
  <2>4. lifecycle' \in [Service -> [generation : Nat, invalidated : BOOLEAN]]
    <3>1. lifecycle' \in {lifecycle, Moved(s, FALSE)}
      BY DEF SessionFails, Restored
    <3>2. lifecycle \in [Service -> [generation : Nat, invalidated : BOOLEAN]]
      BY <1>1 DEF TypeOK
    <3>3. Moved(s, FALSE) \in [Service -> [generation : Nat, invalidated : BOOLEAN]]
      BY <3>2 DEF Moved
    <3>4. QED
      BY <3>1, <3>2, <3>3
  <2>5. begin' \in [Service -> Beginnings]
    BY DEF TokensIInv, TypeOK, SessionFails, Beginnings, Idle, Statuses
  <2>6. faults' \in Nat
    BY DEF TokensIInv, TypeOK, SessionFails, Fault
  <2>7. QED
    BY <2>1, <2>2, <2>3, <2>4, <2>5, <2>6
       DEF TokensIInv, TypeOK, SessionFails, Restored, Mine, Fault
<1>3. Bounded'
  BY DEF TokensIInv, Bounded, SessionFails
<1>4. Elsewhere(s)
  BY DEF TokensIInv, TypeOK, Elsewhere, SessionFails, Restored, Fault, Moved
<1>5. /\ begin[s].phase = "marked"
      /\ stored'[s] = stored[s] /\ inflight'[s] = inflight[s] /\ waits'[s] = waits[s]
      /\ session'[s] = session[s] /\ transition'[s] = transition[s] /\ login'[s] = login[s]
      /\ logout'[s] = logout[s] /\ cancel'[s] = cancel[s]
      /\ callers' = callers /\ (faults' = 0 => faults = 0) /\ left' = left
      /\ started' = started /\ refreshes' = refreshes
  BY DEF TokensIInv, TypeOK, SessionFails, Restored, Fault, Moved
<1>6. /\ ~(Mine(s) /\ ~transition[s]) =>
            /\ attempt'[s] = attempt[s] /\ status'[s] = status[s]
            /\ owner'[s] = owner[s] /\ lifecycle'[s] = lifecycle[s]
      /\ Mine(s) /\ ~transition[s] =>
            /\ status'[s] = begin[s].was /\ owner'[s] = begin[s].had
            /\ attempt'[s] = NoAttempt
            /\ begin[s].was = "connected" => ~lifecycle'[s].invalidated
            /\ begin[s].was # "connected" => lifecycle'[s] = lifecycle[s]
      /\ begin'[s] = Idle
  <2>1. Mine(s) /\ ~transition[s] /\ begin[s].was = "connected" =>
          lifecycle'[s] = [generation |-> lifecycle[s].generation + 1, invalidated |-> FALSE]
    BY DEF TokensIInv, TypeOK, SessionFails, Restored, Moved
  <2>2. ~(Mine(s) /\ ~transition[s]) => attempt'[s] = attempt[s] /\ status'[s] = status[s]
    BY DEF SessionFails
  <2>3. ~(Mine(s) /\ ~transition[s]) => owner'[s] = owner[s] /\ lifecycle'[s] = lifecycle[s]
    BY DEF SessionFails
  <2>4. Mine(s) /\ ~transition[s] => status'[s] = begin[s].was /\ owner'[s] = begin[s].had
    BY DEF TokensIInv, TypeOK, SessionFails, Restored
  <2>5. Mine(s) /\ ~transition[s] => attempt'[s] = NoAttempt
    BY DEF TokensIInv, TypeOK, SessionFails
  <2>6. Mine(s) /\ ~transition[s] /\ begin[s].was # "connected" => lifecycle'[s] = lifecycle[s]
    BY DEF SessionFails, Restored
  <2>7. begin'[s] = Idle
    BY DEF TokensIInv, TypeOK, SessionFails
  <2>8. QED
    BY <1>1, <1>5, <2>1, <2>2, <2>3, <2>4, <2>5, <2>6, <2>7
<1>7. Counted(s)'
  BY <1>1, <1>5, <1>6 DEF Numbers, Counted, Local, Idle
<1>8. Operations(s)'
  BY <1>1, <1>5, <1>6 DEF Operations, Local, At
<1>9. s \in crossed => s \in crossed'
  BY DEF SessionFails
<1>10. ASSUME s \notin crossed' PROVE Apart(s)'
  <2>1. Apart(s) /\ Operations(s) /\ Counted(s)
    BY <1>1, <1>10, <1>9 DEF Local
  <2>2. Attempted(s)'
    BY <1>1, <1>5, <1>6, <1>10, <2>1
       DEF Typed, Apart, Operations, Mine, Attempted, Accepted, Idle, NoAttempt
  <2>3. Accepted(s)'
    BY <1>1, <1>5, <1>6, <1>10, <2>1
       DEF Numbers, Apart, Operations, At, Storing, Attempted, Accepted, NoAttempt
  <2>4. Alone(s)'
    BY <1>1, <1>5, <1>6, <1>10, <2>1
       DEF Numbers, Apart, Operations, At, Storing, Invalid, Attempted, Accepted, Alone
  <2>5. Unconnected(s)'
    BY <1>1, <1>5, <1>6, <1>10, <2>1 DEF Apart, Unconnected, Idle
  <2>6. SignedOut(s)' /\ LeftBehind(s)'
    BY <1>1, <1>5, <1>6, <1>10, <2>1 DEF Apart, Invalid, SignedOut, LeftBehind, At, Idle
  <2>7. Usable(s)'
    BY <1>1, <1>5, <1>6, <1>10, <2>1 DEF Apart, At, Invalid, Usable, Idle
  <2>8. QED
    BY <2>2, <2>3, <2>4, <2>5, <2>6, <2>7 DEF Apart
<1>11. QED
  BY <1>2, <1>3, <1>4, <1>7, <1>8, <1>10, Together DEF Local

LEMMA FinishStartKeeps ==
    ASSUME TokensIInv, NEW s \in Service, FinishStart(s)
    PROVE  TokensIInv'
<1>1. TypeOK /\ Local(s) /\ Typed(s) /\ Numbers(s)
  BY TypedAt DEF TokensIInv
<1>2. TypeOK'
  <2>1. attempt' \in [Service -> Attempts]
    <3>1. NoAttempt \in Attempts
      BY <1>1 DEF Attempts, NoAttempt
    <3>2. [attempt[s] EXCEPT !.session = begin[s].id, !.starting = FALSE] \in Attempts
      BY <1>1 DEF Typed, Numbers, Attempts, NoAttempt
    <3>3. QED
      BY <3>1, <3>2 DEF TokensIInv, TypeOK, FinishStart, To, Mine
  <2>2. session' \in [Service -> Sessions]
    <3>1. [session[s] EXCEPT !.state = "ended"] \in Sessions
      BY <1>1 DEF Typed, Numbers, Sessions
    <3>2. QED
      BY <3>1 DEF TokensIInv, TypeOK, FinishStart, To, Mine
  <2>3. begin' \in [Service -> Beginnings]
    BY DEF TokensIInv, TypeOK, FinishStart, Beginnings, Idle, Statuses
  <2>4. QED
    BY <2>1, <2>2, <2>3 DEF TokensIInv, TypeOK, FinishStart
<1>3. Bounded'
  BY DEF TokensIInv, Bounded, FinishStart
<1>4. Elsewhere(s)
  BY DEF TokensIInv, TypeOK, Elsewhere, FinishStart
<1>5. /\ begin[s].phase = "begun"
      /\ status'[s] = status[s] /\ owner'[s] = owner[s] /\ stored'[s] = stored[s]
      /\ lifecycle'[s] = lifecycle[s] /\ inflight'[s] = inflight[s] /\ waits'[s] = waits[s]
      /\ transition'[s] = transition[s] /\ login'[s] = login[s] /\ logout'[s] = logout[s]
      /\ cancel'[s] = cancel[s]
      /\ callers' = callers /\ (faults' = 0 => faults = 0) /\ left' = left
      /\ started' = started /\ refreshes' = refreshes
  BY DEF FinishStart
<1>6. /\ Mine(s) /\ ~transition[s] /\ attempt[s].session \in {0, begin[s].id} =>
           IF attempt[s].completed THEN attempt'[s] = NoAttempt
           ELSE /\ attempt'[s].id = attempt[s].id /\ attempt'[s].session = begin[s].id
                /\ ~attempt'[s].starting /\ ~attempt'[s].completed
      /\ ~(Mine(s) /\ ~transition[s] /\ attempt[s].session \in {0, begin[s].id})
           => attempt'[s] = attempt[s]
      /\ session'[s].id = session[s].id
      /\ (session'[s].state = "completing" => session[s].state = "completing")
      /\ session[s].state # "pending" => session'[s].state = session[s].state
      /\ session'[s].state # session[s].state => session'[s].state = "ended"
      /\ begin'[s] = Idle
  <2>1. Mine(s) /\ ~transition[s] /\ attempt[s].session \in {0, begin[s].id} =>
          attempt'[s] = IF attempt[s].completed THEN NoAttempt
                        ELSE [attempt[s] EXCEPT !.session = begin[s].id, !.starting = FALSE]
    BY DEF TokensIInv, TypeOK, FinishStart
  <2>2. ~(Mine(s) /\ ~transition[s] /\ attempt[s].session \in {0, begin[s].id})
          => attempt'[s] = attempt[s]
    BY DEF FinishStart
  <2>3. \/ session'[s] = session[s]
        \/ session[s].state = "pending" /\ session'[s] = [session[s] EXCEPT !.state = "ended"]
    BY DEF TokensIInv, TypeOK, FinishStart
  <2>4. begin'[s] = Idle
    BY DEF TokensIInv, TypeOK, FinishStart
  <2>5. session[s] \in Sessions /\ attempt[s] \in Attempts
    BY <1>1 DEF Typed
  <2>6. /\ session'[s].id = session[s].id
        /\ (session'[s].state = "completing" => session[s].state = "completing")
        /\ session[s].state # "pending" => session'[s].state = session[s].state
        /\ session'[s].state # session[s].state => session'[s].state = "ended"
    BY <2>3, <2>5 DEF Sessions
  <2>7. Mine(s) /\ ~transition[s] /\ attempt[s].session \in {0, begin[s].id} =>
           IF attempt[s].completed THEN attempt'[s] = NoAttempt
           ELSE /\ attempt'[s].id = attempt[s].id /\ attempt'[s].session = begin[s].id
                /\ ~attempt'[s].starting /\ ~attempt'[s].completed
    BY <2>1, <2>5 DEF Attempts
  <2>8. QED
    BY <2>2, <2>4, <2>6, <2>7
<1>7. Counted(s)'
  BY <1>1, <1>5, <1>6 DEF Numbers, Counted, Local, Idle
<1>8. Operations(s)'
  BY <1>1, <1>5, <1>6 DEF Operations, Local, At
<1>9. s \in crossed => s \in crossed'
  BY DEF FinishStart, Mine, Meets
<1>10. ASSUME s \notin crossed' PROVE Apart(s)'
  <2>1. Apart(s) /\ Operations(s) /\ Counted(s)
    BY <1>1, <1>10, <1>9 DEF Local
  <2>2. Attempted(s)'
    BY <1>1, <1>5, <1>6, <1>10, <2>1
       DEF Typed, Apart, Operations, Mine, Attempted, Accepted, Idle, NoAttempt
  <2>3. Accepted(s)'
    BY <1>1, <1>5, <1>6, <1>10, <2>1 DEF Apart, Operations, At, Accepted
  <2>4. Alone(s)'
    BY <1>1, <1>5, <1>6, <1>10, <2>1 DEF Apart, At, Invalid, Alone
  <2>5. Unconnected(s)'
    BY <1>1, <1>5, <1>6, <1>10, <2>1 DEF Apart, Unconnected, Idle
  <2>6. SignedOut(s)' /\ LeftBehind(s)'
    BY <1>1, <1>5, <1>6, <1>10, <2>1 DEF Apart, Invalid, SignedOut, LeftBehind, At, Idle
  <2>7. Usable(s)'
    BY <1>1, <1>5, <1>6, <1>10, <2>1 DEF Apart, At, Invalid, Usable, Idle
  <2>8. QED
    BY <2>2, <2>3, <2>4, <2>5, <2>6, <2>7 DEF Apart
<1>11. QED
  BY <1>2, <1>3, <1>4, <1>7, <1>8, <1>10, Together DEF Local

LEMMA ExpireKeeps ==
    ASSUME TokensIInv, NEW s \in Service, Expire(s)
    PROVE  TokensIInv'
<1>1. TypeOK /\ Local(s) /\ Typed(s) /\ Numbers(s)
  BY TypedAt DEF TokensIInv
<1>2. TypeOK'
  <2>1. session' \in [Service -> Sessions]
    BY <1>1, SessionTyped DEF Expire
  <2>2. QED
    BY <2>1 DEF TokensIInv, TypeOK, Expire
<1>3. Bounded'
  BY DEF TokensIInv, Bounded, Expire
<1>4. Elsewhere(s)
  BY DEF TokensIInv, TypeOK, Elsewhere, Expire
<1>5. Local(s)'
  BY DEF TokensIInv, Local, Counted, Operations, Apart, Attempted, Accepted, Alone,
         Unconnected, SignedOut, LeftBehind, Usable, Mine, At, Invalid, Expire
<1>6. QED
  BY <1>2, <1>3, <1>4, <1>5, Together

-----------------------------------------------------------------------------
\* A login that comes in: its account is reserved, the tokens are switched off, the
\* credential is stored, and the service is connected.
LEMMA ReserveAccountKeeps ==
    ASSUME TokensIInv, NEW s \in Service, ReserveAccount(s)
    PROVE  TokensIInv'
<1>1. TypeOK /\ Local(s) /\ Typed(s) /\ Numbers(s)
  BY TypedAt DEF TokensIInv
<1>2. TypeOK'
  <2>1. login' \in [Service -> Logins]
    BY <1>1, LoginTyped DEF ReserveAccount
  <2>2. pending' \in [ProviderAccount -> SUBSET Service]
    <3>1. login[s].account \in ProviderAccount /\ {s} \in SUBSET Service
      BY DEF ReserveAccount, TokensIInv, Local, Operations, At
    <3>2. QED
      BY <3>1 DEF TokensIInv, TypeOK, ReserveAccount
  <2>3. crossed' \in SUBSET Service
    BY DEF TokensIInv, TypeOK, ReserveAccount, Meets
  <2>4. QED
    BY <2>1, <2>2, <2>3 DEF TokensIInv, TypeOK, ReserveAccount
<1>3. Bounded'
  BY DEF TokensIInv, Bounded, ReserveAccount
<1>4. Elsewhere(s)
  BY DEF TokensIInv, TypeOK, Elsewhere, ReserveAccount, Meets, To
<1>5. /\ At(s, "signed")
      /\ status'[s] = status[s] /\ owner'[s] = owner[s] /\ stored'[s] = stored[s]
      /\ lifecycle'[s] = lifecycle[s] /\ inflight'[s] = inflight[s] /\ waits'[s] = waits[s]
      /\ attempt'[s] = attempt[s] /\ session'[s] = session[s] /\ transition'[s] = transition[s]
      /\ begin'[s] = begin[s] /\ logout'[s] = logout[s] /\ cancel'[s] = cancel[s]
      /\ callers' = callers /\ (faults' = 0 => faults = 0) /\ left' = left
      /\ started' = started /\ refreshes' = refreshes
  BY DEF ReserveAccount
<1>6. /\ login'[s].phase \in {"reserved", "failed"}
      /\ login'[s].session = login[s].session /\ login'[s].account = login[s].account
      /\ login'[s].phase = "reserved" =>
           attempt[s].id # 0 /\ (s \notin crossed' => attempt[s].id = login[s].session)
  <2>1. \/ login'[s] = [login[s] EXCEPT !.phase = "failed"]
        \/ /\ login'[s] = [login[s] EXCEPT !.phase = "reserved"] /\ Current(s)
           /\ s \notin crossed' => attempt[s].id \in {0, login[s].session}
    BY DEF TokensIInv, TypeOK, ReserveAccount, Meets, Current, To, At, Free, Moved, Invalid
  <2>2. QED
    BY <1>1, <1>5, <2>1 DEF Typed, Logins, Current
<1>7. Counted(s)'
  BY <1>1, <1>5, <1>6 DEF Counted, Local
<1>8. Operations(s)'
  BY <1>1, <1>5, <1>6 DEF Operations, Local, At
<1>9. s \in crossed => s \in crossed'
  BY DEF ReserveAccount, Meets
<1>10. ASSUME s \notin crossed' PROVE Apart(s)'
  <2>1. Apart(s) /\ Operations(s) /\ Counted(s)
    BY <1>1, <1>10, <1>9 DEF Local
  <2>2. Attempted(s)'
    BY <1>1, <1>5, <1>6, <1>10, <2>1 DEF Apart, Operations, Attempted
  <2>3. Accepted(s)'
    BY <1>1, <1>5, <1>6, <1>10, <2>1 DEF Apart, At, Storing, Accepted, NoAttempt
  <2>4. Alone(s)'
    BY <1>1, <1>5, <1>6, <1>10, <2>1 DEF Apart, At, Invalid, Alone
  <2>5. Unconnected(s)'
    BY <1>1, <1>5, <1>6, <1>10, <2>1 DEF Apart, At, Unconnected
  <2>6. SignedOut(s)' /\ LeftBehind(s)'
    BY <1>1, <1>5, <1>6, <1>10, <2>1 DEF Apart, At, Mine, Invalid, SignedOut, LeftBehind
  <2>7. Usable(s)'
    BY <1>1, <1>5, <1>6, <1>10, <2>1 DEF Apart, Operations, At, Usable, Unconnected
  <2>8. QED
    BY <2>2, <2>3, <2>4, <2>5, <2>6, <2>7 DEF Apart
<1>11. QED
  BY <1>2, <1>3, <1>4, <1>7, <1>8, <1>10, Together DEF Local

LEMMA InvalidateForLoginKeeps ==
    ASSUME TokensIInv, NEW s \in Service, InvalidateForLogin(s)
    PROVE  TokensIInv'
<1>1. TypeOK /\ Local(s) /\ Typed(s) /\ Numbers(s)
  BY TypedAt DEF TokensIInv
<1>2. TypeOK'
  <2>1. /\ lifecycle' \in [Service -> [generation : Nat, invalidated : BOOLEAN]]
        /\ waits' \in [Service -> SUBSET {"begin", "login", "logout"}]
    BY InvalidateTyped DEF TokensIInv, InvalidateForLogin
  <2>2. login' \in [Service -> Logins]
    BY <1>1, LoginTyped DEF InvalidateForLogin
  <2>3. QED
    BY <2>1, <2>2 DEF TokensIInv, TypeOK, InvalidateForLogin, Invalidate, To
<1>3. Bounded'
  BY DEF TokensIInv, Bounded, InvalidateForLogin
<1>4. Elsewhere(s)
  BY DEF TokensIInv, TypeOK, Elsewhere, InvalidateForLogin, Invalidate, Moved, To
<1>5. /\ At(s, "reserved")
      /\ status'[s] = status[s] /\ owner'[s] = owner[s] /\ stored'[s] = stored[s]
      /\ inflight'[s] = inflight[s] /\ attempt'[s] = attempt[s] /\ session'[s] = session[s]
      /\ transition'[s] = transition[s] /\ begin'[s] = begin[s] /\ logout'[s] = logout[s]
      /\ cancel'[s] = cancel[s]
      /\ callers' = callers /\ (faults' = 0 => faults = 0) /\ left' = left
      /\ started' = started /\ refreshes' = refreshes
  BY DEF InvalidateForLogin, Invalidate
<1>6. /\ login'[s].phase = "off" /\ lifecycle'[s].invalidated
      /\ login'[s].session = login[s].session /\ login'[s].account = login[s].account
      /\ inflight[s] # NoCall => "login" \in waits'[s]
      /\ inflight[s] = NoCall => waits'[s] = waits[s]
      /\ waits[s] \subseteq waits'[s]
  <2>1. login'[s] = [login[s] EXCEPT !.phase = "off"]
    BY DEF TokensIInv, TypeOK, InvalidateForLogin, To
  <2>2. lifecycle'[s] = [generation |-> lifecycle[s].generation + 1, invalidated |-> TRUE]
    BY DEF TokensIInv, TypeOK, InvalidateForLogin, Invalidate, Moved
  <2>3. waits'[s] = IF inflight[s] = NoCall THEN waits[s] ELSE waits[s] \cup {"login"}
    BY DEF TokensIInv, TypeOK, InvalidateForLogin, Invalidate
  <2>4. QED
    BY <1>1, <1>5, <2>1, <2>2, <2>3
<1>7. Counted(s)'
  BY <1>1, <1>5, <1>6 DEF Counted, Local
<1>8. Operations(s)'
  BY <1>1, <1>5, <1>6 DEF Operations, Local, At
<1>9. s \in crossed => s \in crossed'
  BY DEF InvalidateForLogin, To, Meets
<1>10. ASSUME s \notin crossed' PROVE Apart(s)'
  <2>1. Apart(s) /\ Operations(s) /\ Counted(s)
    BY <1>1, <1>10, <1>9 DEF Local
  <2>2. Attempted(s)'
    BY <1>1, <1>5, <1>6, <1>10, <2>1 DEF Apart, Operations, Attempted
  <2>3. Accepted(s)'
    BY <1>1, <1>5, <1>6, <1>10, <2>1 DEF Apart, At, Storing, Accepted
  <2>4. Alone(s)'
    BY <1>1, <1>5, <1>6, <1>10, <2>1 DEF Apart, Invalid, Alone
  <2>5. Unconnected(s)'
    BY <1>1, <1>5, <1>6, <1>10, <2>1 DEF Apart, At, Unconnected
  <2>6. SignedOut(s)' /\ LeftBehind(s)'
    BY <1>1, <1>5, <1>6, <1>10, <2>1 DEF Apart, At, Mine, Invalid, SignedOut, LeftBehind
  <2>7. Usable(s)'
    BY <1>1, <1>5, <1>6, <1>10, <2>1 DEF Apart, Operations, At, Usable, Unconnected
  <2>8. QED
    BY <2>2, <2>3, <2>4, <2>5, <2>6, <2>7 DEF Apart
<1>11. QED
  BY <1>2, <1>3, <1>4, <1>7, <1>8, <1>10, Together DEF Local

LEMMA PutLoginKeeps ==
    ASSUME TokensIInv, NEW s \in Service, PutLogin(s)
    PROVE  TokensIInv'
<1>1. TypeOK /\ Local(s) /\ Typed(s) /\ Numbers(s)
  BY TypedAt DEF TokensIInv
<1>2. TypeOK'
  <2>1. stored' \in [Service -> [login : Nat, renewed : Nat]]
    <3>1. [login |-> login[s].session, renewed |-> 0] \in [login : Nat, renewed : Nat]
      BY <1>1 DEF Numbers
    <3>2. QED
      BY <3>1 DEF TokensIInv, TypeOK, PutLogin, To, Fault, At
  <2>2. login' \in [Service -> Logins]
    BY <1>1, LoginTyped DEF PutLogin
  <2>3. faults' \in Nat
    BY DEF TokensIInv, TypeOK, PutLogin, Fault
  <2>4. QED
    BY <2>1, <2>2, <2>3 DEF TokensIInv, TypeOK, PutLogin
<1>3. Bounded'
  BY DEF TokensIInv, Bounded, PutLogin
<1>4. Elsewhere(s)
  BY DEF TokensIInv, TypeOK, Elsewhere, PutLogin, Fault, To
<1>5. /\ At(s, "off") /\ "login" \notin waits[s]
      /\ status'[s] = status[s] /\ owner'[s] = owner[s] /\ lifecycle'[s] = lifecycle[s]
      /\ inflight'[s] = inflight[s] /\ waits'[s] = waits[s] /\ attempt'[s] = attempt[s]
      /\ session'[s] = session[s] /\ transition'[s] = transition[s] /\ begin'[s] = begin[s]
      /\ logout'[s] = logout[s] /\ cancel'[s] = cancel[s]
      /\ callers' = callers /\ (faults' = 0 => faults = 0)
      /\ started' = started /\ refreshes' = refreshes
  BY DEF TokensIInv, TypeOK, PutLogin, Fault
<1>6. /\ login'[s].phase \in {"put", "failed"}
      /\ login'[s].session = login[s].session /\ login'[s].account = login[s].account
      /\ login'[s].phase = "put" => stored'[s].login = login[s].session /\ stored'[s].renewed = 0
      /\ login'[s].phase = "failed" => stored'[s] = stored[s]
      /\ (s \in left' => s \in left) /\ (login'[s].phase = "put" => s \notin left')
      /\ login'[s].phase = "failed" => left' = left
  <2>1. \/ /\ login'[s] = [login[s] EXCEPT !.phase = "put"]
           /\ stored'[s] = [login |-> login[s].session, renewed |-> 0] /\ left' = left \ {s}
        \/ /\ login'[s] = [login[s] EXCEPT !.phase = "failed"]
           /\ stored'[s] = stored[s] /\ left' = left
    BY DEF TokensIInv, TypeOK, PutLogin, Fault, To, At, Moved, Invalid
  <2>2. QED
    BY <1>1, <1>5, <2>1 DEF Typed, Logins
<1>7. Counted(s)'
  BY <1>1, <1>5, <1>6 DEF Numbers, Counted, Local, Operations, At
<1>8. Operations(s)'
  BY <1>1, <1>5, <1>6 DEF Operations, Local, At
<1>9. s \in crossed => s \in crossed'
  BY DEF PutLogin
<1>10. ASSUME s \notin crossed' PROVE Apart(s)'
  <2>1. Apart(s) /\ Operations(s) /\ Counted(s)
    BY <1>1, <1>10, <1>9 DEF Local
  <2>2. Attempted(s)'
    BY <1>1, <1>5, <1>6, <1>10, <2>1 DEF Apart, Operations, Attempted
  <2>3. Accepted(s)'
    BY <1>1, <1>5, <1>6, <1>10, <2>1 DEF Apart, At, Storing, Accepted
  <2>4. Alone(s)'
    BY <1>1, <1>5, <1>6, <1>10, <2>1 DEF Apart, At, Invalid, Accepted, Alone
  <2>5. Unconnected(s)'
    BY <1>1, <1>5, <1>6, <1>10, <2>1 DEF Apart, At, Unconnected
  <2>6. SignedOut(s)' /\ LeftBehind(s)'
    BY <1>1, <1>5, <1>6, <1>10, <2>1 DEF Apart, At, Mine, Invalid, SignedOut, LeftBehind
  <2>7. Usable(s)'
    BY <1>1, <1>5, <1>6, <1>10, <2>1 DEF Apart, Operations, At, Attempted, Usable, Unconnected, None
  <2>8. QED
    BY <2>2, <2>3, <2>4, <2>5, <2>6, <2>7 DEF Apart
<1>11. QED
  BY <1>2, <1>3, <1>4, <1>7, <1>8, <1>10, Together DEF Local

LEMMA ConnectKeeps ==
    ASSUME TokensIInv, NEW s \in Service, Connect(s)
    PROVE  TokensIInv'
<1>1. TypeOK /\ Local(s) /\ Typed(s) /\ Numbers(s)
  BY TypedAt DEF TokensIInv
<1>2. TypeOK'
  <2>1. status' \in [Service -> Statuses]
    BY DEF TokensIInv, TypeOK, Connect, Statuses, Meets, Current, To, At
  <2>2. owner' \in [Service -> ProviderAccount \cup {NoAccount}]
    <3>1. login[s].account \in ProviderAccount \cup {NoAccount}
      BY <1>1 DEF Local, Operations, At, Connect
    <3>2. QED
      BY <3>1 DEF TokensIInv, TypeOK, Connect, To, Meets, Current, At
  <2>3. attempt' \in [Service -> Attempts]
    <3>1. NoAttempt \in Attempts
      BY <1>1 DEF Attempts, NoAttempt
    <3>2. [attempt[s] EXCEPT !.completed = TRUE, !.session = login[s].session] \in Attempts
      BY <1>1 DEF Typed, Numbers, Attempts, NoAttempt
    <3>3. QED
      BY <3>1, <3>2 DEF TokensIInv, TypeOK, Connect, To
  <2>4. login' \in [Service -> Logins]
    BY <1>1, LoginTyped DEF Connect
  <2>5. crossed' \in SUBSET Service
    BY DEF TokensIInv, TypeOK, Connect, Meets
  <2>6. QED
    BY <2>1, <2>2, <2>3, <2>4, <2>5 DEF TokensIInv, TypeOK, Connect
<1>3. Bounded'
  BY DEF TokensIInv, Bounded, Connect
<1>4. Elsewhere(s)
  BY DEF TokensIInv, TypeOK, Elsewhere, Connect, Meets, To
<1>5. /\ At(s, "put")
      /\ stored'[s] = stored[s] /\ lifecycle'[s] = lifecycle[s] /\ inflight'[s] = inflight[s]
      /\ waits'[s] = waits[s] /\ session'[s] = session[s] /\ transition'[s] = transition[s]
      /\ begin'[s] = begin[s] /\ logout'[s] = logout[s] /\ cancel'[s] = cancel[s]
      /\ callers' = callers /\ (faults' = 0 => faults = 0) /\ left' = left
      /\ started' = started /\ refreshes' = refreshes
  BY DEF Connect
<1>6. /\ login'[s].session = login[s].session /\ login'[s].account = login[s].account
      /\ Current(s) =>
           login'[s].phase = "connected" /\ status'[s] = "connected" /\ owner'[s] = login[s].account
      /\ ~Current(s) =>
            /\ login'[s].phase = "superseded" /\ status'[s] = status[s]
            /\ owner'[s] = owner[s] /\ attempt'[s] = attempt[s]
      /\ Current(s) /\ attempt[s].starting =>
           /\ attempt'[s].completed /\ attempt'[s].session = login[s].session
           /\ attempt'[s].id = attempt[s].id /\ attempt'[s].starting
      /\ Current(s) /\ ~attempt[s].starting => attempt'[s] = NoAttempt
  <2>1. Current(s) =>
           /\ login'[s] = [login[s] EXCEPT !.phase = "connected"]
           /\ attempt'[s] = IF attempt[s].starting
                THEN [attempt[s] EXCEPT !.completed = TRUE, !.session = login[s].session]
                ELSE NoAttempt
    BY DEF TokensIInv, TypeOK, Connect, To
  <2>2. ~Current(s) => login'[s] = [login[s] EXCEPT !.phase = "superseded"]
    BY DEF TokensIInv, TypeOK, Connect, To
  <2>3. Current(s) => status'[s] = "connected" /\ owner'[s] = login[s].account
    BY DEF TokensIInv, TypeOK, Connect
  <2>4. ~Current(s) => status'[s] = status[s] /\ owner'[s] = owner[s] /\ attempt'[s] = attempt[s]
    BY DEF Connect
  <2>5. \A phase : [login[s] EXCEPT !.phase = phase] =
          [phase |-> phase, session |-> login[s].session, account |-> login[s].account]
    BY <1>1 DEF Typed, Logins
  <2>6. /\ Current(s) /\ attempt[s].starting =>
             /\ attempt'[s].completed /\ attempt'[s].session = login[s].session
             /\ attempt'[s].id = attempt[s].id /\ attempt'[s].starting
        /\ Current(s) /\ ~attempt[s].starting => attempt'[s] = NoAttempt
    <3>1. attempt[s] \in Attempts
      BY <1>1 DEF Typed
    <3>2. QED
      BY <2>1, <3>1 DEF Attempts
  <2>7. /\ login'[s].session = login[s].session /\ login'[s].account = login[s].account
        /\ Current(s) => login'[s].phase = "connected"
        /\ ~Current(s) => login'[s].phase = "superseded"
    BY <2>1, <2>2, <2>5
  <2>8. QED
    BY <2>3, <2>4, <2>6, <2>7
<1>7. Counted(s)'
  BY <1>1, <1>5, <1>6 DEF Counted, Local
<1>8. Operations(s)'
  BY <1>1, <1>5, <1>6 DEF Operations, Local, At
<1>9. s \in crossed => s \in crossed'
  BY DEF Connect, Meets
<1>10. ASSUME s \notin crossed' PROVE Apart(s)'
  <2>1. Apart(s) /\ Operations(s) /\ Counted(s)
    BY <1>1, <1>10, <1>9 DEF Local
  <2>2. Attempted(s)'
    BY <1>1, <1>5, <1>6, <1>10, <2>1
       DEF Apart, Operations, At, Storing, Attempted, Accepted, NoAttempt
  <2>3. Accepted(s)'
    BY <1>1, <1>5, <1>6, <1>10, <2>1
       DEF Typed, Apart, Operations, At, Storing, Attempted, Accepted, Current
  <2>4. Alone(s)'
    BY <1>1, <1>5, <1>6, <1>10, <2>1 DEF Apart, At, Invalid, Alone
  <2>5. Unconnected(s)'
    BY <1>1, <1>5, <1>6, <1>10, <2>1
       DEF Numbers, Apart, Operations, At, Storing, Attempted, Accepted, Unconnected
  <2>6. SignedOut(s)' /\ LeftBehind(s)'
    BY TokensAssumption, <1>1, <1>5, <1>6, <1>10, <2>1
       DEF Numbers, Apart, Operations, At, Storing, Invalid, Attempted, Accepted, SignedOut, LeftBehind
  <2>7. Usable(s)'
    BY <1>1, <1>5, <1>6, <1>10, <2>1
       DEF Numbers, Apart, Operations, At, Storing, Attempted, Accepted, Usable, Unconnected
  <2>8. QED
    BY <2>2, <2>3, <2>4, <2>5, <2>6, <2>7 DEF Apart
<1>11. QED
  BY <1>2, <1>3, <1>4, <1>7, <1>8, <1>10, Together DEF Local

LEMMA ActivateLoginKeeps ==
    ASSUME TokensIInv, NEW s \in Service, ActivateLogin(s)
    PROVE  TokensIInv'
<1>1. TypeOK /\ Local(s) /\ Typed(s) /\ Numbers(s)
  BY TypedAt DEF TokensIInv
<1>2. TypeOK'
  <2>1. lifecycle' \in [Service -> [generation : Nat, invalidated : BOOLEAN]]
    BY DEF TokensIInv, TypeOK, ActivateLogin, Moved
  <2>2. login' \in [Service -> Logins]
    BY <1>1, LoginTyped DEF ActivateLogin
  <2>3. QED
    BY <2>1, <2>2 DEF TokensIInv, TypeOK, ActivateLogin, To
<1>3. Bounded'
  BY DEF TokensIInv, Bounded, ActivateLogin
<1>4. Elsewhere(s)
  BY DEF TokensIInv, TypeOK, Elsewhere, ActivateLogin, To, Moved
<1>5. /\ At(s, "connected") /\ login'[s] = [login[s] EXCEPT !.phase = "active"]
      /\ ~Invalid(s)' /\ crossed' = crossed /\ left' = left
      /\ status'[s] = status[s] /\ owner'[s] = owner[s] /\ stored'[s] = stored[s]
      /\ inflight'[s] = inflight[s] /\ waits'[s] = waits[s] /\ attempt'[s] = attempt[s]
      /\ session'[s] = session[s] /\ begin'[s] = begin[s] /\ logout'[s] = logout[s]
      /\ cancel'[s] = cancel[s] /\ transition'[s] = transition[s]
      /\ callers' = callers /\ started' = started /\ refreshes' = refreshes
      /\ faults' = faults
  BY DEF TokensIInv, TypeOK, ActivateLogin, Invalid, Moved, To
<1>6. /\ login'[s].phase = "active" /\ login'[s].session = login[s].session
      /\ login'[s].account = login[s].account
  BY <1>1, <1>5 DEF Typed, Logins
<1>7. Counted(s)' /\ Operations(s)'
  BY <1>1, <1>5, <1>6 DEF Counted, Operations, Local, At
<1>8. ASSUME s \notin crossed' PROVE Apart(s)'
  <2>1. Apart(s) /\ Operations(s)
    BY <1>1, <1>5, <1>8 DEF Local
  <2>2. Attempted(s)' /\ Accepted(s)' /\ Alone(s)'
    BY <1>5, <1>6, <2>1 DEF Apart, At, Attempted, Accepted, Alone, Storing
  <2>3. Unconnected(s)' /\ LeftBehind(s)'
    BY <1>5, <1>6, <2>1 DEF Apart, At, Unconnected, LeftBehind
  <2>4. SignedOut(s)'
    BY <1>5, <1>6, <2>1 DEF Apart, At, Mine, SignedOut
  <2>5. Usable(s)'
    BY <1>5, <1>6, <2>1 DEF Apart, At, Mine, Usable
  <2>6. QED
    BY <2>2, <2>3, <2>4, <2>5 DEF Apart
<1>9. QED
  BY <1>2, <1>3, <1>4, <1>7, <1>8, Together DEF Local

LEMMA TakeBackKeeps ==
    ASSUME TokensIInv, NEW s \in Service, TakeBack(s)
    PROVE  TokensIInv'
<1>1. TypeOK /\ Local(s) /\ Typed(s) /\ Numbers(s)
  BY TypedAt DEF TokensIInv
<1>2. TypeOK'
  <2>1. stored' \in [Service -> [login : Nat, renewed : Nat]]
    <3>1. None \in [login : Nat, renewed : Nat]
      BY DEF None
    <3>2. QED
      BY <3>1 DEF TokensIInv, TypeOK, TakeBack
  <2>2. login' \in [Service -> Logins]
    BY <1>1, LoginTyped DEF TakeBack
  <2>3. left' \in SUBSET Service /\ faults' \in Nat
    BY DEF TokensIInv, TypeOK, TakeBack, Fault
  <2>4. QED
    BY <2>1, <2>2, <2>3 DEF TokensIInv, TypeOK, TakeBack
<1>3. Bounded'
  BY DEF TokensIInv, Bounded, TakeBack
<1>4. Elsewhere(s)
  BY DEF TokensIInv, TypeOK, Elsewhere, TakeBack, Fault, To
<1>5. /\ At(s, "superseded") /\ login'[s] = [login[s] EXCEPT !.phase = "failed"]
      /\ \/ stored'[s] = None /\ s \notin left' /\ faults' = faults
         \/ stored'[s] = stored[s] /\ s \in left' /\ faults' # 0
      /\ status'[s] = status[s] /\ owner'[s] = owner[s] /\ lifecycle'[s] = lifecycle[s]
      /\ inflight'[s] = inflight[s] /\ waits'[s] = waits[s] /\ attempt'[s] = attempt[s]
      /\ session'[s] = session[s] /\ begin'[s] = begin[s] /\ logout'[s] = logout[s]
      /\ cancel'[s] = cancel[s] /\ transition'[s] = transition[s]
      /\ callers' = callers /\ started' = started /\ refreshes' = refreshes
  BY DEF TokensIInv, TypeOK, TakeBack, Fault, To
<1>6. /\ login'[s].phase = "failed" /\ login'[s].session = login[s].session
      /\ login'[s].account = login[s].account
  BY <1>1, <1>5 DEF Typed, Logins
<1>7. Counted(s)'
  BY <1>1, <1>5 DEF Numbers, Counted, Local, None
<1>8. Operations(s)'
  BY <1>1, <1>5, <1>6 DEF Operations, Local, At
<1>9. ASSUME s \notin crossed' PROVE Apart(s)'
  <2>1. Apart(s) /\ Operations(s)
    BY <1>1, <1>9 DEF Local, TakeBack
  <2>2. Attempted(s)' /\ Accepted(s)' /\ Alone(s)'
    BY <1>5, <1>6, <2>1 DEF Apart, At, Attempted, Accepted, Alone, Storing, Invalid
  <2>3. Unconnected(s)' /\ LeftBehind(s)'
    BY <1>5, <1>6, <2>1 DEF Apart, Operations, At, Unconnected, LeftBehind
  <2>4. SignedOut(s)'
    BY <1>5, <1>6, <2>1 DEF Apart, At, Mine, Invalid, SignedOut
  <2>5. Usable(s)'
    BY <1>5, <1>6, <2>1
       DEF Apart, Operations, At, Mine, Invalid, Accepted, Unconnected, Storing, Usable
  <2>6. QED
    BY <2>2, <2>3, <2>4, <2>5 DEF Apart
<1>10. QED
  BY <1>2, <1>3, <1>4, <1>7, <1>8, <1>9, Together DEF Local

LEMMA CompletedKeeps ==
    ASSUME TokensIInv, NEW s \in Service, Completed(s)
    PROVE  TokensIInv'
<1>1. TypeOK /\ Local(s) /\ Typed(s) /\ Numbers(s)
  BY TypedAt DEF TokensIInv
<1>2. TypeOK'
  <2>1. session' \in [Service -> Sessions]
    <3>1. [session[s] EXCEPT !.state = "completed"] \in Sessions
      BY <1>1 DEF Typed, Numbers, Sessions
    <3>2. [session[s] EXCEPT !.state = "ended"] \in Sessions
      BY <1>1 DEF Typed, Numbers, Sessions
    <3>3. QED
      BY <3>1, <3>2 DEF TokensIInv, TypeOK, Completed, To
  <2>2. pending' \in [ProviderAccount -> SUBSET Service]
    BY DEF TokensIInv, TypeOK, Completed
  <2>3. login' \in [Service -> Logins]
    BY DEF TokensIInv, TypeOK, Completed, Logins, NoLogin
  <2>4. QED
    BY <2>1, <2>2, <2>3 DEF TokensIInv, TypeOK, Completed
<1>3. Bounded'
  BY DEF TokensIInv, Bounded, Completed
<1>4. Elsewhere(s)
  BY DEF TokensIInv, TypeOK, Elsewhere, Completed
<1>5. Local(s)'
  BY DEF TokensIInv, TypeOK, Local, Counted, Operations, Apart, Attempted, Accepted, Alone,
         Unconnected, SignedOut, LeftBehind, Usable, Storing, Mine, At, Invalid, Completed, NoLogin
<1>6. QED
  BY <1>2, <1>3, <1>4, <1>5, Together

-----------------------------------------------------------------------------
\* Signing out.
LEMMA StartLogoutKeeps ==
    ASSUME TokensIInv, NEW s \in Service, StartLogout(s)
    PROVE  TokensIInv'
<1>1. TypeOK /\ Local(s) /\ Typed(s) /\ Numbers(s)
  BY TypedAt DEF TokensIInv
<1>2. TypeOK'
  <2>1. transition' \in [Service -> BOOLEAN]
    BY DEF TokensIInv, TypeOK, StartLogout
  <2>2. logout' \in [Service -> {"idle", "started", "cleared", "off", "removed"}]
    BY DEF TokensIInv, TypeOK, StartLogout
  <2>3. signOuts' \in Nat
    BY DEF TokensIInv, TypeOK, StartLogout
  <2>4. QED
    BY <2>1, <2>2, <2>3 DEF TokensIInv, TypeOK, StartLogout
<1>3. Bounded'
  BY DEF TokensIInv, Bounded, StartLogout
<1>4. Elsewhere(s)
  BY DEF TokensIInv, TypeOK, Elsewhere, StartLogout
<1>5. Local(s)'
  BY DEF TokensIInv, TypeOK, Local, Counted, Operations, Apart, Attempted, Accepted, Alone,
         Unconnected, SignedOut, LeftBehind, Usable, Mine, At, Invalid, StartLogout
<1>6. QED
  BY <1>2, <1>3, <1>4, <1>5, Together

LEMMA EndSessionsKeeps ==
    ASSUME TokensIInv, NEW s \in Service, EndSessions(s)
    PROVE  TokensIInv'
<1>1. TypeOK /\ Local(s) /\ Typed(s) /\ Numbers(s)
  BY TypedAt DEF TokensIInv
<1>2. TypeOK'
  <2>1. session' \in [Service -> Sessions]
    <3>1. [session[s] EXCEPT !.state = IF session[s].state = "pending" THEN "ended" ELSE session[s].state]
            \in Sessions
      BY <1>1 DEF Typed, Sessions
    <3>2. QED
      BY <3>1 DEF TokensIInv, TypeOK, EndSessions
  <2>2. attempt' \in [Service -> Attempts]
    BY DEF TokensIInv, TypeOK, EndSessions, Attempts, NoAttempt
  <2>3. logout' \in [Service -> {"idle", "started", "cleared", "off", "removed"}]
    BY DEF TokensIInv, TypeOK, EndSessions
  <2>4. QED
    BY <2>1, <2>2, <2>3 DEF TokensIInv, TypeOK, EndSessions
<1>3. Bounded'
  BY DEF TokensIInv, Bounded, EndSessions
<1>4. Elsewhere(s)
  BY DEF TokensIInv, TypeOK, Elsewhere, EndSessions
<1>5. Local(s)'
  BY DEF TokensIInv, TypeOK, Local, Counted, Operations, Apart, Attempted, Accepted, Alone,
         Unconnected, SignedOut, LeftBehind, Usable, Storing, Mine, At, Invalid, EndSessions, NoAttempt
<1>6. QED
  BY <1>2, <1>3, <1>4, <1>5, Together

LEMMA InvalidateForLogoutKeeps ==
    ASSUME TokensIInv, NEW s \in Service, InvalidateForLogout(s)
    PROVE  TokensIInv'
<1>1. TypeOK /\ Local(s) /\ Typed(s) /\ Numbers(s)
  BY TypedAt DEF TokensIInv
<1>2. TypeOK'
  <2>1. /\ lifecycle' \in [Service -> [generation : Nat, invalidated : BOOLEAN]]
        /\ waits' \in [Service -> SUBSET {"begin", "login", "logout"}]
    BY InvalidateTyped DEF TokensIInv, InvalidateForLogout
  <2>2. logout' \in [Service -> {"idle", "started", "cleared", "off", "removed"}]
    BY DEF TokensIInv, TypeOK, InvalidateForLogout
  <2>3. QED
    BY <2>1, <2>2 DEF TokensIInv, TypeOK, InvalidateForLogout, Invalidate
<1>3. Bounded'
  BY DEF TokensIInv, Bounded, InvalidateForLogout
<1>4. Elsewhere(s)
  BY DEF TokensIInv, TypeOK, Elsewhere, InvalidateForLogout, Invalidate, Moved
<1>5. Local(s)'
  BY DEF TokensIInv, TypeOK, Local, Counted, Operations, Apart, Attempted, Accepted, Alone,
         Unconnected, SignedOut, LeftBehind, Usable, Mine, At, Invalid, InvalidateForLogout, Invalidate,
         Moved
<1>6. QED
  BY <1>2, <1>3, <1>4, <1>5, Together

LEMMA RemoveLoginKeeps ==
    ASSUME TokensIInv, NEW s \in Service, RemoveLogin(s)
    PROVE  TokensIInv'
<1>1. TypeOK /\ Local(s) /\ Typed(s) /\ Numbers(s)
  BY TypedAt DEF TokensIInv
<1>2. TypeOK'
  <2>1. stored' \in [Service -> [login : Nat, renewed : Nat]]
    <3>1. None \in [login : Nat, renewed : Nat]
      BY <1>1 DEF None
    <3>2. QED
      BY <3>1 DEF TokensIInv, TypeOK, RemoveLogin
  <2>2. logout' \in [Service -> {"idle", "started", "cleared", "off", "removed"}]
    BY DEF TokensIInv, TypeOK, RemoveLogin, Fault
  <2>3. transition' \in [Service -> BOOLEAN]
    BY DEF TokensIInv, TypeOK, RemoveLogin, Fault
  <2>4. faults' \in Nat
    BY DEF TokensIInv, TypeOK, RemoveLogin, Fault
  <2>5. QED
    BY <2>1, <2>2, <2>3, <2>4 DEF TokensIInv, TypeOK, RemoveLogin
<1>3. Bounded'
  BY DEF TokensIInv, Bounded, RemoveLogin
<1>4. Elsewhere(s)
  BY DEF TokensIInv, TypeOK, Elsewhere, RemoveLogin, Fault
<1>5. /\ logout[s] = "off" /\ "logout" \notin waits[s]
      /\ \/ stored'[s] = None /\ logout'[s] = "removed" /\ transition'[s] = transition[s]
         \/ /\ stored'[s] = stored[s] /\ logout'[s] = "idle" /\ ~transition'[s] /\ faults' # 0
            /\ left' = left
      /\ status'[s] = status[s] /\ owner'[s] = owner[s] /\ lifecycle'[s] = lifecycle[s]
      /\ inflight'[s] = inflight[s] /\ waits'[s] = waits[s] /\ attempt'[s] = attempt[s]
      /\ session'[s] = session[s] /\ begin'[s] = begin[s] /\ login'[s] = login[s]
      /\ cancel'[s] = cancel[s]
      /\ callers' = callers /\ (faults' = 0 => faults = 0) /\ (s \in left' => s \in left)
      /\ started' = started /\ refreshes' = refreshes
  BY DEF TokensIInv, TypeOK, RemoveLogin, Fault
<1>6. Counted(s)'
  BY <1>1, <1>5 DEF Numbers, Counted, Local, None
<1>7. Operations(s)'
  BY <1>1, <1>5 DEF Operations, Local, At
<1>8. s \in crossed => s \in crossed'
  BY DEF RemoveLogin, Fault, Meets
<1>9. ASSUME s \notin crossed' PROVE Apart(s)'
  <2>1. Apart(s) /\ Operations(s) /\ Counted(s)
    BY <1>1, <1>9, <1>8 DEF Local
  <2>2. Attempted(s)'
    BY <1>1, <1>5, <1>9, <2>1 DEF Apart, Operations, Attempted
  <2>3. Accepted(s)'
    BY <1>1, <1>5, <1>9, <2>1 DEF Apart, At, Accepted
  <2>4. Alone(s)'
    BY <1>1, <1>5, <1>9, <2>1 DEF Apart, Invalid, Alone
  <2>5. Unconnected(s)'
    BY <1>1, <1>5, <1>9, <2>1 DEF Apart, Unconnected
  <2>6. SignedOut(s)' /\ LeftBehind(s)'
    BY <1>1, <1>5, <1>9, <2>1 DEF Apart, Mine, Invalid, SignedOut, LeftBehind, At
  <2>7. Usable(s)'
    BY <1>1, <1>5, <1>9, <2>1 DEF Apart, Operations, At, Mine, Accepted, Usable, NoAttempt
  <2>8. QED
    BY <2>2, <2>3, <2>4, <2>5, <2>6, <2>7 DEF Apart
<1>10. QED
  BY <1>2, <1>3, <1>4, <1>6, <1>7, <1>9, Together DEF Local

LEMMA EndLogoutKeeps ==
    ASSUME TokensIInv, NEW s \in Service, EndLogout(s)
    PROVE  TokensIInv'
<1>1. TypeOK /\ Local(s) /\ Typed(s) /\ Numbers(s)
  BY TypedAt DEF TokensIInv
<1>2. TypeOK'
  <2>1. status' \in [Service -> Statuses]
    BY DEF TokensIInv, TypeOK, EndLogout, Statuses
  <2>2. owner' \in [Service -> ProviderAccount \cup {NoAccount}]
    BY DEF TokensIInv, TypeOK, EndLogout
  <2>3. attempt' \in [Service -> Attempts]
    BY DEF TokensIInv, TypeOK, EndLogout, Attempts, NoAttempt
  <2>4. transition' \in [Service -> BOOLEAN]
    BY DEF TokensIInv, TypeOK, EndLogout
  <2>5. logout' \in [Service -> {"idle", "started", "cleared", "off", "removed"}]
    BY DEF TokensIInv, TypeOK, EndLogout
  <2>6. QED
    BY <2>1, <2>2, <2>3, <2>4, <2>5 DEF TokensIInv, TypeOK, EndLogout
<1>3. Bounded'
  BY DEF TokensIInv, Bounded, EndLogout
<1>4. Elsewhere(s)
  BY DEF TokensIInv, TypeOK, Elsewhere, EndLogout
<1>5. /\ logout[s] = "removed"
      /\ status'[s] = "disconnected" /\ owner'[s] = NoAccount /\ attempt'[s] = NoAttempt
      /\ ~transition'[s] /\ logout'[s] = "idle"
      /\ stored'[s] = stored[s] /\ lifecycle'[s] = lifecycle[s] /\ inflight'[s] = inflight[s]
      /\ waits'[s] = waits[s] /\ session'[s] = session[s] /\ begin'[s] = begin[s]
      /\ login'[s] = login[s] /\ cancel'[s] = cancel[s]
      /\ callers' = callers /\ (faults' = 0 => faults = 0) /\ left' = left
      /\ started' = started /\ refreshes' = refreshes
  BY DEF TokensIInv, TypeOK, EndLogout
<1>6. Counted(s)'
  BY <1>1, <1>5 DEF Counted, Local
<1>7. Operations(s)'
  BY <1>1, <1>5 DEF Operations, Local, At
<1>8. s \in crossed => s \in crossed'
  BY DEF EndLogout, Meets
<1>9. ASSUME s \notin crossed' PROVE Apart(s)'
  <2>1. Apart(s) /\ Operations(s) /\ Counted(s)
    BY <1>1, <1>9, <1>8 DEF Local
  <2>2. Attempted(s)'
    BY <1>1, <1>5, <1>9, <2>1 DEF Apart, Attempted, Accepted
  <2>3. Accepted(s)'
    BY <1>1, <1>5, <1>9, <2>1 DEF Apart, At, Accepted
  <2>4. Alone(s)'
    BY <1>1, <1>5, <1>9, <2>1 DEF Apart, Accepted, Alone
  <2>5. Unconnected(s)'
    BY <1>1, <1>5, <1>9, <2>1 DEF Apart, Unconnected
  <2>6. SignedOut(s)' /\ LeftBehind(s)'
    BY <1>1, <1>5, <1>9, <2>1 DEF Apart, Mine, Invalid, Accepted, SignedOut, LeftBehind, At, Alone, NoAttempt
  <2>7. Usable(s)'
    BY <1>1, <1>5, <1>9, <2>1 DEF Apart, At, Mine, Accepted, Usable
  <2>8. QED
    BY <2>2, <2>3, <2>4, <2>5, <2>6, <2>7 DEF Apart
<1>10. QED
  BY <1>2, <1>3, <1>4, <1>6, <1>7, <1>9, Together DEF Local

-----------------------------------------------------------------------------
\* Sessions that are cancelled, or found to have ended.
LEMMA CancelSessionKeeps ==
    ASSUME TokensIInv, NEW s \in Service, CancelSession(s)
    PROVE  TokensIInv'
<1>1. TypeOK /\ Local(s) /\ Typed(s) /\ Numbers(s)
  BY TypedAt DEF TokensIInv
<1>2. TypeOK'
  <2>1. session' \in [Service -> Sessions]
    BY <1>1, SessionTyped DEF CancelSession
  <2>2. cancel' \in [Service -> Cancels]
    <3>1. [phase |-> "cancelled", session |-> session[s].id] \in Cancels
      BY <1>1 DEF Typed, Numbers, Cancels
    <3>2. QED
      BY <3>1 DEF TokensIInv, TypeOK, CancelSession
  <2>3. QED
    BY <2>1, <2>2 DEF TokensIInv, TypeOK, CancelSession
<1>3. Bounded'
  BY DEF TokensIInv, Bounded, CancelSession
<1>4. Elsewhere(s)
  BY DEF TokensIInv, TypeOK, Elsewhere, CancelSession
<1>5. Local(s)'
  BY DEF TokensIInv, TypeOK, Local, Counted, Operations, Apart, Attempted, Accepted, Alone,
         Unconnected, SignedOut, LeftBehind, Usable, Mine, At, Invalid, CancelSession, Sessions
<1>6. QED
  BY <1>2, <1>3, <1>4, <1>5, Together

LEMMA FindEndedKeeps ==
    ASSUME TokensIInv, NEW s \in Service, FindEnded(s)
    PROVE  TokensIInv'
<1>1. TypeOK /\ Local(s) /\ Typed(s) /\ Numbers(s)
  BY TypedAt DEF TokensIInv
<1>2. TypeOK'
  <2>1. cancel' \in [Service -> Cancels]
    <3>1. [phase |-> "ended", session |-> session[s].id] \in Cancels
      BY <1>1 DEF Typed, Numbers, Cancels
    <3>2. QED
      BY <3>1 DEF TokensIInv, TypeOK, FindEnded
  <2>2. QED
    BY <2>1 DEF TokensIInv, TypeOK, FindEnded
<1>3. Bounded'
  BY DEF TokensIInv, Bounded, FindEnded
<1>4. Elsewhere(s)
  BY DEF TokensIInv, TypeOK, Elsewhere, FindEnded
<1>5. /\ cancel[s] = NoCancel
      /\ \/ session[s].state \in {"none", "ended"}
         \/ session[s].state = "completed" /\ begin[s].phase = "marked"
      /\ status'[s] = status[s] /\ owner'[s] = owner[s] /\ stored'[s] = stored[s]
      /\ lifecycle'[s] = lifecycle[s] /\ inflight'[s] = inflight[s] /\ waits'[s] = waits[s]
      /\ attempt'[s] = attempt[s] /\ session'[s] = session[s] /\ transition'[s] = transition[s]
      /\ begin'[s] = begin[s] /\ login'[s] = login[s] /\ logout'[s] = logout[s]
      /\ callers' = callers /\ (faults' = 0 => faults = 0) /\ left' = left
      /\ started' = started /\ refreshes' = refreshes
  BY DEF FindEnded
<1>6. /\ cancel'[s].session = session[s].id
  <2>1. cancel'[s] = [phase |-> "ended", session |-> session[s].id]
    BY DEF TokensIInv, TypeOK, FindEnded
  <2>2. QED
    BY <1>1, <1>5, <2>1
<1>7. Counted(s)'
  BY <1>1, <1>5, <1>6 DEF Counted, Local
<1>8. Operations(s)'
  BY <1>1, <1>5, <1>6 DEF Operations, Local, At
<1>9. s \in crossed => s \in crossed'
  BY DEF FindEnded, Meets
<1>10. ASSUME s \notin crossed' PROVE Apart(s)'
  <2>1. Apart(s) /\ Operations(s) /\ Counted(s)
    BY <1>1, <1>10, <1>9 DEF Local
  <2>2. Attempted(s)'
    BY <1>1, <1>5, <1>6, <1>10, <2>1 DEF Numbers, Apart, Attempted
  <2>3. Accepted(s)'
    BY <1>1, <1>5, <1>6, <1>10, <2>1 DEF Apart, At, Accepted
  <2>4. Alone(s)'
    BY <1>1, <1>5, <1>6, <1>10, <2>1 DEF Apart, At, Invalid, Alone
  <2>5. Unconnected(s)'
    BY <1>1, <1>5, <1>6, <1>10, <2>1 DEF Apart, Unconnected
  <2>6. SignedOut(s)' /\ LeftBehind(s)'
    BY <1>1, <1>5, <1>6, <1>10, <2>1 DEF Apart, Mine, Invalid, SignedOut, LeftBehind, At
  <2>7. Usable(s)'
    BY <1>1, <1>5, <1>6, <1>10, <2>1 DEF Apart, At, Mine, Invalid, Usable
  <2>8. QED
    BY <2>2, <2>3, <2>4, <2>5, <2>6, <2>7 DEF Apart
<1>11. QED
  BY <1>2, <1>3, <1>4, <1>7, <1>8, <1>10, Together DEF Local

LEMMA ReconcileKeeps ==
    ASSUME TokensIInv, NEW s \in Service, Reconcile(s)
    PROVE  TokensIInv'
<1>1. TypeOK /\ Local(s) /\ Typed(s) /\ Numbers(s)
  BY TypedAt DEF TokensIInv
<1>2. TypeOK'
  <2>1. status' \in [Service -> Statuses]
    <3>1. status \in [Service -> Statuses] /\ Disconnected(s) \in Statuses
      BY <1>1 DEF TypeOK, Disconnected, Statuses
    <3>2. status' \in {status, [status EXCEPT ![s] = Disconnected(s)]}
      BY DEF Reconcile
    <3>3. QED
      BY <3>1, <3>2
  <2>2. attempt' \in [Service -> Attempts]
    <3>1. NoAttempt \in Attempts
      BY <1>1 DEF Attempts, NoAttempt
    <3>2. attempt \in [Service -> Attempts]
      BY <1>1 DEF TypeOK
    <3>3. attempt' \in {attempt, [attempt EXCEPT ![s] = NoAttempt]}
      BY DEF Reconcile
    <3>4. QED
      BY <3>1, <3>2, <3>3
  <2>3. crossed' \in SUBSET Service
    BY DEF TokensIInv, TypeOK, Reconcile, Meets
  <2>4. cancel' \in [Service -> Cancels]
    BY DEF TokensIInv, TypeOK, Reconcile, Cancels, NoCancel
  <2>5. QED
    BY <2>1, <2>2, <2>3, <2>4 DEF TokensIInv, TypeOK, Reconcile
<1>3. Bounded'
  BY DEF TokensIInv, Bounded, Reconcile
<1>4. Elsewhere(s)
  BY DEF TokensIInv, TypeOK, Elsewhere, Reconcile, Meets
<1>5. /\ cancel[s] # NoCancel
      /\ cancel'[s] = NoCancel
      /\ \/ status'[s] = status[s] /\ attempt'[s] = attempt[s]
         \/ /\ attempt'[s] = NoAttempt
            /\ status'[s] \in {status[s], "disconnected", "needs_reauth"}
            /\ s \notin crossed' => attempt[s].id \in {0, cancel[s].session}
      /\ owner'[s] = owner[s] /\ stored'[s] = stored[s] /\ lifecycle'[s] = lifecycle[s]
      /\ inflight'[s] = inflight[s] /\ waits'[s] = waits[s] /\ session'[s] = session[s]
      /\ transition'[s] = transition[s] /\ begin'[s] = begin[s] /\ login'[s] = login[s]
      /\ logout'[s] = logout[s]
      /\ callers' = callers /\ (faults' = 0 => faults = 0) /\ left' = left
      /\ started' = started /\ refreshes' = refreshes
  BY DEF TokensIInv, TypeOK, Reconcile, Meets, Disconnected
<1>6. Counted(s)'
  BY <1>1, <1>5 DEF Numbers, Counted, Local, NoCancel
<1>7. Operations(s)'
  BY <1>1, <1>5 DEF Operations, Local, At
<1>8. s \in crossed => s \in crossed'
  BY DEF Reconcile, Meets, Disconnected
<1>9. ASSUME s \notin crossed' PROVE Apart(s)'
  <2>1. Apart(s) /\ Operations(s) /\ Counted(s)
    BY <1>1, <1>9, <1>8 DEF Local
  <2>2. Attempted(s)'
    BY <1>1, <1>5, <1>9, <2>1 DEF Apart, Attempted, NoAttempt
  <2>3. Accepted(s)'
    BY <1>1, <1>5, <1>9, <2>1 DEF Apart, Operations, At, Storing, Attempted, Accepted, NoAttempt
  <2>4. Alone(s)'
    BY <1>1, <1>5, <1>9, <2>1 DEF Apart, At, Invalid, Alone
  <2>5. Unconnected(s)'
    BY <1>1, <1>5, <1>9, <2>1 DEF Apart, Unconnected
  <2>6. SignedOut(s)' /\ LeftBehind(s)'
    BY <1>1, <1>5, <1>9, <2>1 DEF Apart, Mine, Invalid, Attempted, SignedOut, LeftBehind, At
  <2>7. Usable(s)'
    BY <1>1, <1>5, <1>9, <2>1 DEF Numbers, Apart, At, Mine, Invalid, Attempted, Usable
  <2>8. QED
    BY <2>2, <2>3, <2>4, <2>5, <2>6, <2>7 DEF Apart
<1>10. QED
  BY <1>2, <1>3, <1>4, <1>6, <1>7, <1>9, Together DEF Local

-----------------------------------------------------------------------------
\* The answer of a refresh.
LEMMA RenewedKeeps ==
    ASSUME TokensIInv, NEW s \in Service, Renewed(s)
    PROVE  TokensIInv'
<1>1. TypeOK /\ Local(s) /\ Typed(s) /\ Numbers(s)
  BY TypedAt DEF TokensIInv
<1>2. TypeOK'
  <2>1. inflight' \in [Service -> Calls]
    <3>1. NoCall \in Calls
      BY <1>1 DEF Calls, NoCall, None
    <3>2. [inflight[s] EXCEPT !.phase = "renewed"] \in Calls
      BY <1>1 DEF Typed, Calls
    <3>3. \/ inflight' = [inflight EXCEPT ![s] = NoCall]
          \/ inflight' = [inflight EXCEPT ![s] = [inflight[s] EXCEPT !.phase = "renewed"]]
      BY DEF Renewed, Finished
    <3>4. inflight \in [Service -> Calls]
      BY <1>1 DEF TypeOK
    <3>5. QED
      BY <3>1, <3>2, <3>3, <3>4
  <2>2. waits' \in [Service -> SUBSET {"begin", "login", "logout"}]
    BY DEF TokensIInv, TypeOK, Renewed, Finished
  <2>3. QED
    BY <2>1, <2>2 DEF TokensIInv, TypeOK, Renewed
<1>3. Bounded'
  BY DEF TokensIInv, Bounded, Renewed
<1>4. Elsewhere(s)
  BY DEF TokensIInv, TypeOK, Elsewhere, Renewed, Finished
<1>5. /\ inflight[s].phase = "asked"
      /\ status'[s] = status[s] /\ owner'[s] = owner[s] /\ stored'[s] = stored[s]
      /\ lifecycle'[s] = lifecycle[s] /\ attempt'[s] = attempt[s] /\ session'[s] = session[s]
      /\ transition'[s] = transition[s] /\ begin'[s] = begin[s] /\ login'[s] = login[s]
      /\ logout'[s] = logout[s] /\ cancel'[s] = cancel[s]
      /\ callers' = callers /\ (faults' = 0 => faults = 0) /\ left' = left
      /\ started' = started /\ refreshes' = refreshes
  BY DEF Renewed
<1>6. /\ \/ inflight'[s] = NoCall /\ waits'[s] = {}
         \/ /\ inflight'[s].phase = "renewed" /\ inflight'[s].from = inflight[s].from
            /\ waits'[s] = waits[s]
  <2>1. \/ inflight'[s] = NoCall /\ waits'[s] = {}
        \/ inflight'[s] = [inflight[s] EXCEPT !.phase = "renewed"] /\ waits'[s] = waits[s]
    BY DEF TokensIInv, TypeOK, Renewed, Finished, Moved, To, At, Invalid
  <2>2. QED
    BY <1>1, <1>5, <2>1 DEF Typed, Calls
<1>7. Counted(s)'
  BY <1>1, <1>5, <1>6 DEF Numbers, Counted, Local, NoCall, None
<1>8. Operations(s)'
  BY <1>1, <1>5, <1>6 DEF Operations, Local, At, NoCall
<1>9. s \in crossed => s \in crossed'
  BY DEF Renewed, Finished, Meets
<1>10. ASSUME s \notin crossed' PROVE Apart(s)'
  <2>1. Apart(s) /\ Operations(s) /\ Counted(s)
    BY <1>1, <1>10, <1>9 DEF Local
  <2>2. Attempted(s)'
    BY <1>1, <1>5, <1>6, <1>10, <2>1 DEF Apart, Operations, Attempted
  <2>3. Accepted(s)'
    BY <1>1, <1>5, <1>6, <1>10, <2>1 DEF Apart, At, Accepted
  <2>4. Alone(s)'
    BY <1>1, <1>5, <1>6, <1>10, <2>1 DEF Apart, At, Invalid, Alone, NoCall
  <2>5. Unconnected(s)'
    BY <1>1, <1>5, <1>6, <1>10, <2>1 DEF Apart, Unconnected
  <2>6. SignedOut(s)' /\ LeftBehind(s)'
    BY <1>1, <1>5, <1>6, <1>10, <2>1 DEF Apart, Mine, SignedOut, LeftBehind, At, NoCall
  <2>7. Usable(s)'
    BY <1>1, <1>5, <1>6, <1>10, <2>1 DEF Apart, At, Mine, Invalid, Usable
  <2>8. QED
    BY <2>2, <2>3, <2>4, <2>5, <2>6, <2>7 DEF Apart
<1>11. QED
  BY <1>2, <1>3, <1>4, <1>7, <1>8, <1>10, Together DEF Local

LEMMA PutRenewedKeeps ==
    ASSUME TokensIInv, NEW s \in Service, PutRenewed(s)
    PROVE  TokensIInv'
<1>1. TypeOK /\ Local(s) /\ Typed(s) /\ Numbers(s)
  BY TypedAt DEF TokensIInv
<1>2. TypeOK'
  <2>1. stored' \in [Service -> [login : Nat, renewed : Nat]]
    <3>1. [inflight[s].from EXCEPT !.renewed = @ + 1] \in [login : Nat, renewed : Nat]
      BY <1>1 DEF Typed, Calls
    <3>2. QED
      BY <3>1 DEF TokensIInv, TypeOK, PutRenewed
  <2>2. inflight' \in [Service -> Calls]
    BY DEF TokensIInv, TypeOK, PutRenewed, Calls, NoCall, None, Finished
  <2>3. waits' \in [Service -> SUBSET {"begin", "login", "logout"}]
    BY DEF TokensIInv, TypeOK, PutRenewed, Finished
  <2>4. QED
    BY <2>1, <2>2, <2>3 DEF TokensIInv, TypeOK, PutRenewed
<1>3. Bounded'
  BY DEF TokensIInv, Bounded, PutRenewed
<1>4. Elsewhere(s)
  BY DEF TokensIInv, TypeOK, Elsewhere, PutRenewed, Finished
<1>5. Local(s)'
  BY DEF TokensIInv, TypeOK, Local, Counted, Operations, Apart, Attempted, Accepted, Alone,
         Unconnected, SignedOut, LeftBehind, Usable, Mine, At, Invalid, PutRenewed, Finished, None,
         Calls, NoCall
<1>6. QED
  BY <1>2, <1>3, <1>4, <1>5, Together

LEMMA RefreshFailsKeeps ==
    ASSUME TokensIInv, NEW s \in Service, RefreshFails(s)
    PROVE  TokensIInv'
<1>1. TypeOK /\ Local(s) /\ Typed(s) /\ Numbers(s)
  BY TypedAt DEF TokensIInv
<1>2. TypeOK'
  <2>1. inflight' \in [Service -> Calls]
    BY DEF TokensIInv, TypeOK, RefreshFails, Calls, NoCall, None, Finished
  <2>2. waits' \in [Service -> SUBSET {"begin", "login", "logout"}]
    BY DEF TokensIInv, TypeOK, RefreshFails, Finished
  <2>3. faults' \in Nat
    BY DEF TokensIInv, TypeOK, RefreshFails, Fault
  <2>4. QED
    BY <2>1, <2>2, <2>3 DEF TokensIInv, TypeOK, RefreshFails
<1>3. Bounded'
  BY DEF TokensIInv, Bounded, RefreshFails
<1>4. Elsewhere(s)
  BY DEF TokensIInv, TypeOK, Elsewhere, RefreshFails, Finished, Fault
<1>5. Local(s)'
  BY DEF TokensIInv, TypeOK, Local, Counted, Operations, Apart, Attempted, Accepted, Alone,
         Unconnected, SignedOut, LeftBehind, Usable, Mine, At, Invalid, RefreshFails, Finished, Fault,
         NoCall, None
<1>6. QED
  BY <1>2, <1>3, <1>4, <1>5, Together

LEMMA RejectedKeeps ==
    ASSUME TokensIInv, NEW s \in Service, Rejected(s)
    PROVE  TokensIInv'
<1>1. TypeOK /\ Local(s) /\ Typed(s) /\ Numbers(s)
  BY TypedAt DEF TokensIInv
<1>2. TypeOK'
  <2>1. inflight' \in [Service -> Calls]
    <3>1. [inflight[s] EXCEPT !.phase = "rejected"] \in Calls
      BY <1>1 DEF Typed, Calls
    <3>2. QED
      BY <3>1 DEF TokensIInv, TypeOK, Rejected
  <2>2. lifecycle' \in [Service -> [generation : Nat, invalidated : BOOLEAN]]
    BY DEF TokensIInv, TypeOK, Rejected, Moved
  <2>3. QED
    BY <2>1, <2>2 DEF TokensIInv, TypeOK, Rejected, Moved
<1>3. Bounded'
  BY DEF TokensIInv, Bounded, Rejected
<1>4. Elsewhere(s)
  BY DEF TokensIInv, TypeOK, Elsewhere, Rejected, Moved
<1>5. Local(s)'
  BY DEF TokensIInv, TypeOK, Local, Counted, Operations, Apart, Attempted, Accepted, Alone,
         Unconnected, SignedOut, LeftBehind, Usable, Mine, At, Invalid, Rejected, Moved, NoCall
<1>6. QED
  BY <1>2, <1>3, <1>4, <1>5, Together

LEMMA OnInvalidGrantKeeps ==
    ASSUME TokensIInv, NEW s \in Service, OnInvalidGrant(s)
    PROVE  TokensIInv'
<1>1. TypeOK /\ Local(s) /\ Typed(s) /\ Numbers(s)
  BY TypedAt DEF TokensIInv
<1>2. TypeOK'
  <2>1. status' \in [Service -> Statuses]
    BY DEF TokensIInv, TypeOK, OnInvalidGrant, Statuses
  <2>2. inflight' \in [Service -> Calls]
    BY DEF TokensIInv, TypeOK, OnInvalidGrant, Calls, NoCall, None, Finished
  <2>3. waits' \in [Service -> SUBSET {"begin", "login", "logout"}]
    BY DEF TokensIInv, TypeOK, OnInvalidGrant, Finished
  <2>4. QED
    BY <2>1, <2>2, <2>3 DEF TokensIInv, TypeOK, OnInvalidGrant
<1>3. Bounded'
  BY DEF TokensIInv, Bounded, OnInvalidGrant
<1>4. Elsewhere(s)
  BY DEF TokensIInv, TypeOK, Elsewhere, OnInvalidGrant, Finished
<1>5. Local(s)'
  BY DEF TokensIInv, TypeOK, Local, Counted, Operations, Apart, Attempted, Accepted, Alone,
         Unconnected, SignedOut, LeftBehind, Usable, Mine, At, Invalid, OnInvalidGrant, Finished,
         NoCall, None
<1>6. QED
  BY <1>2, <1>3, <1>4, <1>5, Together

-----------------------------------------------------------------------------
\* A session is completed: its login begins.
LEMMA CompleteKeeps ==
    ASSUME TokensIInv, NEW s \in Service, NEW a \in ProviderAccount, Complete(s, a)
    PROVE  TokensIInv'
<1>1. TypeOK /\ Local(s) /\ Typed(s) /\ Numbers(s)
  BY TypedAt DEF TokensIInv
<1>2. TypeOK'
  <2>1. session' \in [Service -> Sessions]
    <3>1. [session[s] EXCEPT !.state = "completing"] \in Sessions
      BY <1>1 DEF Typed, Sessions
    <3>2. QED
      BY <1>1, <3>1 DEF TypeOK, Complete
  <2>2. login' \in [Service -> Logins]
    <3>1. [phase |-> "signed", session |-> session[s].id, account |-> a] \in Logins
      BY <1>1 DEF Numbers, Logins
    <3>2. QED
      BY <1>1, <3>1 DEF TypeOK, Complete
  <2>3. QED
    BY <1>1, <2>1, <2>2 DEF TypeOK, Complete
<1>3. Bounded'
  BY DEF TokensIInv, Bounded, Complete
<1>4. Elsewhere(s)
  BY <1>1 DEF TypeOK, Elsewhere, Complete
<1>5. Local(s)'
  BY <1>1 DEF TypeOK, Local, Counted, Operations, Apart, Attempted, Accepted, Alone, Unconnected,
     SignedOut, LeftBehind, Usable, Storing, Mine, At, Invalid, Complete, Sessions, Typed
<1>6. QED
  BY <1>2, <1>3, <1>4, <1>5, Together

-----------------------------------------------------------------------------
\* A caller goes on, or starts a refresh.
LEMMA CallerStep ==
    ASSUME TokensIInv, NEW c \in Caller, NEW v \in Callers, callers' = [callers EXCEPT ![c] = v],
           v.got.login <= started, v.got.renewed <= refreshes,
           v.phase \in {"asked", "read"} =>
               \/ v.service = callers[c].service /\ callers[c].phase \in {"asked", "read"}
               \/ ~Invalid(v.service) /\ status[v.service] = "connected",
           UNCHANGED <<account, stored, source, attempt, session, pending, transition,
                       operations, counters>>
    PROVE  TokensIInv'
<1>1. TypeOK'
  BY DEF TokensIInv, TypeOK
<1>2. /\ callers'[c] = v /\ \A d \in Caller \ {c} : callers'[d] = callers[d]
  BY DEF TokensIInv, TypeOK
<1>3. Bounded'
  BY <1>2 DEF TokensIInv, Bounded
<1>4. ASSUME NEW s \in Service PROVE Local(s)'
  <2>1. Local(s)
    BY DEF TokensIInv
  <2>2. Counted(s)' /\ Operations(s)'
    BY <2>1 DEF Local, Counted, Operations, At
  <2>3. ASSUME s \notin crossed' PROVE Apart(s)'
    <3>1. Apart(s)
      BY <2>1, <2>3 DEF Local
    <3>2. /\ Attempted(s)' /\ Accepted(s)' /\ Alone(s)' /\ Unconnected(s)' /\ Usable(s)'
          /\ LeftBehind(s)'
      BY <3>1 DEF Apart, Attempted, Accepted, Alone, Unconnected, LeftBehind, Usable, At, Invalid,
                  Mine
    <3>3. SignedOut(s)'
      <4>1. SignedOut(s)
        BY <3>1 DEF Apart
      <4>2. ASSUME owner[s] = NoAccount, ~Invalid(s), NEW d \in Caller, callers'[d].service = s
            PROVE  callers'[d].phase \notin {"asked", "read"}
        <5>1. CASE d = c
          BY <1>2, <4>1, <4>2, <5>1 DEF SignedOut
        <5>2. CASE d # c
          BY <1>2, <4>1, <4>2, <5>2 DEF SignedOut
        <5>3. QED
          BY <5>1, <5>2
      <4>3. QED
        BY <4>1, <4>2 DEF SignedOut, Mine, Invalid
    <3>4. QED
      BY <3>1, <3>2, <3>3 DEF Apart
  <2>4. QED
    BY <2>2, <2>3 DEF Local
<1>5. QED
  BY <1>1, <1>3, <1>4 DEF TokensIInv

LEMMA CallersTyped ==
    ASSUME TypeOK, NEW c \in Caller
    PROVE  /\ callers[c] \in Callers /\ callers[c].service \in Service
           /\ callers[c].got.login \in Nat /\ callers[c].got.renewed \in Nat
BY DEF TypeOK, Callers

LEMMA AskKeeps ==
    ASSUME TokensIInv, NEW c \in Caller, NEW s \in Service, Ask(c, s)
    PROVE  TokensIInv'
<1>1. PICK v : v = [phase |-> "asked", service |-> s, got |-> None]
  OBVIOUS
<1>2. v \in Callers /\ v.got.login = 0 /\ v.got.renewed = 0 /\ v.service = s
  BY <1>1 DEF Callers, None
<1>3. started \in Nat /\ refreshes \in Nat
  BY DEF TokensIInv, TypeOK
<1>4. callers' = [callers EXCEPT ![c] = v] /\ ~Invalid(s) /\ status[s] = "connected"
  BY <1>1 DEF Ask
<1>5. UNCHANGED <<account, stored, source, attempt, session, pending, transition,
                  operations, counters>>
  BY DEF Ask
<1>6. v.got.login <= started /\ v.got.renewed <= refreshes
  BY <1>2, <1>3
<1>7. QED
  BY <1>2, <1>4, <1>5, <1>6, CallerStep

LEMMA NobodyTyped ==
    ASSUME TypeOK, NEW c \in Caller
    PROVE  NoCaller \in Callers /\ NoCaller.got = None /\ NoCaller.phase = "idle"
<1>1. callers[c].service \in Service
  BY CallersTyped
<1>2. QED
  BY <1>1 DEF NoCaller, Callers, None

LEMMA GivesUpKeeps ==
    ASSUME TokensIInv, NEW c \in Caller, callers' = [callers EXCEPT ![c] = NoCaller],
           UNCHANGED <<account, stored, source, attempt, session, pending, transition,
                       operations, counters>>
    PROVE  TokensIInv'
<1>1. NoCaller \in Callers /\ NoCaller.got.login = 0 /\ NoCaller.got.renewed = 0
      /\ NoCaller.phase = "idle"
  BY NobodyTyped DEF TokensIInv, None
<1>2. started \in Nat /\ refreshes \in Nat
  BY DEF TokensIInv, TypeOK
<1>3. NoCaller.got.login <= started /\ NoCaller.got.renewed <= refreshes
  BY <1>1, <1>2
<1>4. QED
  BY <1>1, <1>3, CallerStep

LEMMA ReadStoreKeeps ==
    ASSUME TokensIInv, NEW c \in Caller, ReadStore(c) PROVE TokensIInv'
<1>1. PICK s \in Service : s = callers[c].service
  BY CallersTyped DEF TokensIInv
<1>2. UNCHANGED <<account, stored, source, attempt, session, pending, transition,
                  operations, counters>>
  BY DEF ReadStore
<1>3. CASE stored[s] = None
  BY <1>1, <1>2, <1>3, GivesUpKeeps DEF ReadStore
<1>4. CASE stored[s] # None
  <2>1. PICK v : v = [callers[c] EXCEPT !.phase = "read", !.got = stored[s]]
    OBVIOUS
  <2>2. callers[c] \in Callers /\ stored[s] \in [login : Nat, renewed : Nat]
    BY <1>1, CallersTyped, TypedAt DEF TokensIInv, Typed
  <2>3. v \in Callers /\ v.service = callers[c].service /\ v.got = stored[s]
    BY <2>1, <2>2 DEF Callers
  <2>4. stored[s].login <= started /\ stored[s].renewed <= refreshes
    BY DEF TokensIInv, Local, Counted
  <2>5. callers' = [callers EXCEPT ![c] = v] /\ callers[c].phase = "asked"
    BY <1>1, <1>4, <2>1 DEF ReadStore
  <2>6. QED
    BY <1>2, <2>3, <2>4, <2>5, CallerStep
<1>5. QED
  BY <1>3, <1>4

LEMMA UseTokenKeeps ==
    ASSUME TokensIInv, NEW c \in Caller, UseToken(c) PROVE TokensIInv'
<1>1. UNCHANGED <<account, stored, source, attempt, session, pending, transition,
                  operations, counters>>
  BY DEF UseToken
<1>2. CASE Invalid(callers[c].service)
  BY <1>1, <1>2, GivesUpKeeps DEF UseToken
<1>3. CASE ~Invalid(callers[c].service)
  <2>1. PICK v : v = [callers[c] EXCEPT !.phase = "used"]
    OBVIOUS
  <2>2. callers[c] \in Callers
    BY CallersTyped DEF TokensIInv
  <2>3. v \in Callers /\ v.phase = "used" /\ v.got = callers[c].got
    BY <2>1, <2>2 DEF Callers
  <2>4. v.got.login <= started /\ v.got.renewed <= refreshes
    BY <2>3 DEF TokensIInv, Bounded
  <2>5. callers' = [callers EXCEPT ![c] = v]
    BY <1>3, <2>1 DEF UseToken, Caller1
  <2>6. QED
    BY <1>1, <2>3, <2>4, <2>5, CallerStep
<1>4. QED
  BY <1>2, <1>3

LEMMA RefreshKeeps ==
    ASSUME TokensIInv, NEW c \in Caller, Refresh(c) PROVE TokensIInv'
<1>1. PICK s \in Service : s = callers[c].service
  BY CallersTyped DEF TokensIInv
<1>2. CASE Invalid(s) \/ inflight[s] # NoCall
  BY <1>1, <1>2, GivesUpKeeps DEF Refresh
<1>3. CASE ~(Invalid(s) \/ inflight[s] # NoCall)
  <2>1. PICK v : v = [phase |-> "asked", generation |-> lifecycle[s].generation,
                      from |-> callers[c].got]
    OBVIOUS
  <2>2. TypeOK /\ Local(s) /\ Typed(s) /\ Numbers(s)
    BY TypedAt DEF TokensIInv
  <2>3. /\ inflight' = [inflight EXCEPT ![s] = v] /\ refreshes' = refreshes + 1
        /\ callers' = [callers EXCEPT ![c] = NoCaller] /\ callers[c].phase = "read"
        /\ refreshes < MaxRefreshes /\ waits[s] = {}
        /\ UNCHANGED <<account, stored, lifecycle, waits, attempt, session, pending, transition,
                       operations, crossed, left, started, signOuts, faults>>
    BY <1>1, <1>3, <2>1, <2>2 DEF Refresh, Local, Operations
  <2>4. /\ callers[c].got \in [login : Nat, renewed : Nat]
        /\ callers[c].got.login <= started /\ callers[c].got.renewed <= refreshes
    BY DEF TokensIInv, TypeOK, Callers, Bounded
  <2>5. lifecycle[s].generation \in Nat
    BY <2>2 DEF Typed
  <2>6. v \in Calls
    BY <2>1, <2>4, <2>5 DEF Calls
  <2>7. v.phase = "asked" /\ v.from = callers[c].got
    BY <2>1
  <2>8. NoCaller \in Callers /\ NoCaller.got.login = 0 /\ NoCaller.got.renewed = 0
    BY <2>2, NobodyTyped DEF None
  <2>9. TypeOK'
    BY <2>2, <2>3, <2>6, <2>8 DEF TypeOK
  <2>10. /\ callers'[c] = NoCaller /\ \A d \in Caller \ {c} : callers'[d] = callers[d]
         /\ inflight'[s] = v /\ \A t \in Service \ {s} : inflight'[t] = inflight[t]
    BY <2>2, <2>3 DEF TypeOK
  <2>11. MaxRefreshes \in Nat /\ refreshes \in Nat /\ started \in Nat
    BY <2>2, TokensAssumption DEF Numbers, TokensAssumption
  <2>12. Bounded'
    <3>1. started' <= MaxLogins /\ refreshes' <= MaxRefreshes
      BY <2>3, <2>11 DEF TokensIInv, Bounded
    <3>2. ASSUME NEW d \in Caller
          PROVE  callers'[d].got.login <= started' /\ callers'[d].got.renewed <= refreshes'
      <4>1. callers'[d] = NoCaller \/ callers'[d] = callers[d]
        BY <2>10
      <4>2. callers[d].got.login <= started /\ callers[d].got.renewed <= refreshes
            /\ callers[d].got.renewed \in Nat
        BY <2>2, CallersTyped DEF TokensIInv, Bounded
      <4>3. QED
        BY <2>3, <2>8, <2>11, <4>1, <4>2
    <3>3. QED
      BY <3>1, <3>2 DEF Bounded
  <2>13. Elsewhere(s)
    BY <2>3, <2>10, <2>11 DEF Elsewhere
  <2>14. Local(s)'
    <3>1. Counted(s)'
      BY <2>2, <2>3, <2>4, <2>7, <2>10, <2>11 DEF Local, Counted, Numbers
    <3>2. Operations(s)'
      BY <2>2, <2>3, <2>7, <2>10 DEF Local, Operations, At, NoCall
    <3>3. ASSUME s \notin crossed' PROVE Apart(s)'
      <4>1. Apart(s)
        BY <2>2, <2>3, <3>3 DEF Local
      <4>2. Attempted(s)' /\ Accepted(s)' /\ Alone(s)' /\ Unconnected(s)'
        BY <1>3, <2>3, <2>10, <4>1 DEF Apart, Attempted, Accepted, Alone, Unconnected, At, Invalid
      <4>3. owner[s] # NoAccount
        BY <1>1, <1>3, <2>3, <4>1 DEF Apart, SignedOut
      <4>4. SignedOut(s)' /\ LeftBehind(s)' /\ Usable(s)'
        BY <1>3, <2>3, <2>10, <4>1, <4>3 DEF Apart, SignedOut, LeftBehind, Usable, Mine, Invalid, At
      <4>5. QED
        BY <4>2, <4>4 DEF Apart
    <3>4. QED
      BY <3>1, <3>2, <3>3 DEF Local
  <2>15. QED
    BY <2>9, <2>12, <2>13, <2>14, Together
<1>4. QED
  BY <1>2, <1>3

-----------------------------------------------------------------------------
\* A step that leaves everything as it is, the first state, and every step.
LEMMA RestKeeps == ASSUME TokensIInv, UNCHANGED vars PROVE TokensIInv'
<1>1. TypeOK' /\ Bounded'
  BY DEF TokensIInv, TypeOK, Bounded, vars
<1>2. ASSUME NEW s \in Service PROVE Local(s)'
  BY DEF TokensIInv, Local, Counted, Operations, Apart, Attempted, Accepted, Alone, Unconnected,
     SignedOut, LeftBehind, Usable, Storing, Mine, At, Invalid, vars
<1>3. QED
  BY <1>1, <1>2 DEF TokensIInv

LEMMA InitTokensIInv == ASSUME TokensAssumption, Init PROVE TokensIInv
<1>1. TypeOK
  <2>1. NoCall \in Calls /\ NoAttempt \in Attempts /\ NoSession \in Sessions
    BY DEF NoCall, Calls, NoAttempt, Attempts, NoSession, Sessions, None
  <2>2. Idle \in Beginnings /\ NoLogin \in Logins /\ NoCancel \in Cancels
    BY DEF Idle, Beginnings, Statuses, NoLogin, Logins, NoCancel, Cancels
  <2>3. /\ None \in [login : Nat, renewed : Nat] /\ "disconnected" \in Statuses
        /\ [generation |-> 0, invalidated |-> FALSE] \in [generation : Nat, invalidated : BOOLEAN]
    BY DEF None, Statuses
  <2>4. NoCaller \in Callers
    BY <2>3 DEF TokensAssumption, NoCaller, Callers
  <2>5. QED
    BY <2>1, <2>2, <2>3, <2>4 DEF Init, TypeOK
<1>2. Bounded
  BY DEF TokensAssumption, Init, Bounded, NoCaller, None
<1>3. ASSUME NEW s \in Service PROVE Local(s)
  <2>1. Counted(s) /\ Operations(s)
    BY DEF Init, Counted, Operations, At, NoCall, NoLogin, NoCancel, NoSession, None, Idle
  <2>2. Attempted(s) /\ Accepted(s) /\ Alone(s) /\ Unconnected(s)
    BY DEF Init, Attempted, Accepted, Alone, Unconnected, At, Storing, NoAttempt, NoSession, Idle,
       NoLogin, NoCall, NoCancel
  <2>3. SignedOut(s) /\ LeftBehind(s) /\ Usable(s)
    BY DEF Init, SignedOut, LeftBehind, Usable, At, Mine, Idle, NoLogin, NoCall, NoAttempt, NoCaller
  <2>4. QED
    BY <2>1, <2>2, <2>3 DEF Local, Apart
<1>4. QED
  BY <1>1, <1>2, <1>3 DEF TokensIInv

LEMMA StepKeepsTokensIInv == ASSUME TokensAssumption, TokensIInv, [Next]_vars PROVE TokensIInv'
<1>1. ASSUME NEW s \in Service, Begins(s) PROVE TokensIInv'
  BY <1>1, ReserveAttemptKeeps, InvalidateForBeginKeeps, MarkAuthorizingKeeps, StartSessionKeeps,
     SessionFailsKeeps, FinishStartKeeps DEF Begins
<1>2. ASSUME NEW s \in Service, SignsIn(s) PROVE TokensIInv'
  BY <1>2, ReserveAccountKeeps, InvalidateForLoginKeeps, PutLoginKeeps, ConnectKeeps,
     ActivateLoginKeeps, TakeBackKeeps, CompletedKeeps DEF SignsIn
<1>3. ASSUME NEW s \in Service, StartLogout(s) \/ SignsOut(s) PROVE TokensIInv'
  BY <1>3, StartLogoutKeeps, EndSessionsKeeps, InvalidateForLogoutKeeps, RemoveLoginKeeps,
     EndLogoutKeeps DEF SignsOut
<1>4. ASSUME NEW s \in Service, RefreshAnswered(s) PROVE TokensIInv'
  BY <1>4, RenewedKeeps, PutRenewedKeeps, RefreshFailsKeeps, RejectedKeeps, OnInvalidGrantKeeps
  DEF RefreshAnswered
<1>5. ASSUME NEW s \in Service, Expire(s) \/ CancelSession(s) \/ FindEnded(s) \/ Reconcile(s)
      PROVE  TokensIInv'
  BY <1>5, ExpireKeeps, CancelSessionKeeps, FindEndedKeeps, ReconcileKeeps
<1>6. ASSUME NEW c \in Caller, Done(c) PROVE TokensIInv'
  BY <1>6, GivesUpKeeps DEF Done
<1>7. CASE Next
  BY <1>1, <1>2, <1>3, <1>4, <1>5, <1>6, <1>7, CompleteKeeps, AskKeeps, ReadStoreKeeps,
     UseTokenKeeps, RefreshKeeps DEF Next
<1>8. QED
  BY <1>7, RestKeeps

-----------------------------------------------------------------------------
-----------------------------------------------------------------------------
\* The phases of a login that has reserved its account.
Holding == Storing \cup {"connected", "active"}

\* The reservation of an account is the login's from the moment it is taken until
\* the login is over, and is the only one.
Reserved ==
    /\ \A s \in Service : login[s].phase \in Holding => s \in pending[login[s].account]
    /\ \A a \in ProviderAccount : \A s, t \in pending[a] : s = t

\* Who has reserved an account finds it owned by no other.
KeptFree ==
    \A a \in ProviderAccount : \A s \in pending[a] :
        \A t \in Service \ crossed : t # s => owner[t] # a

AccountsInv == TokensIInv /\ Reserved /\ KeptFree /\ OneServicePerAccount

LEMMA InitAccountsInv == ASSUME TokensAssumption, Init PROVE AccountsInv
<1>1. TokensIInv
  BY InitTokensIInv
<1>2. Reserved /\ KeptFree /\ OneServicePerAccount
  BY DEF Init, Reserved, KeptFree, OneServicePerAccount, NoLogin, Holding, Storing
<1>3. QED
  BY <1>1, <1>2 DEF AccountsInv

\* A step that leaves logins and reservations alone, and the owners unless an account
\* is signed out, or the service's attempts have met.
LEMMA Aside ==
    ASSUME TokensAssumption, AccountsInv, TokensIInv', UNCHANGED <<pending, login>>,
           crossed \subseteq crossed',
           \A t \in Service \ crossed' : owner'[t] \in {owner[t], NoAccount}
    PROVE  AccountsInv'
<1>1. Reserved'
  BY DEF AccountsInv, Reserved
<1>2. KeptFree'
  BY DEF TokensAssumption, AccountsInv, KeptFree
<1>3. OneServicePerAccount'
  BY DEF TokensAssumption, AccountsInv, OneServicePerAccount
<1>4. QED
  BY <1>1, <1>2, <1>3 DEF AccountsInv

\* A login goes on, and keeps or has no claim to an account.
LEMMA LoginStep ==
    ASSUME AccountsInv, TokensIInv', UNCHANGED <<owner, pending>>, NEW s \in Service, NEW phase,
           To(s, phase), crossed \subseteq crossed',
           login[s].phase \in Holding \/ phase \notin Holding
    PROVE  AccountsInv'
<1>1. /\ login'[s].phase = phase /\ login'[s].account = login[s].account
      /\ \A t \in Service \ {s} : login'[t] = login[t]
  <2>1. login[s] \in Logins /\ login \in [Service -> Logins]
    BY DEF AccountsInv, TokensIInv, TypeOK
  <2>2. login' = [login EXCEPT ![s] = [login[s] EXCEPT !.phase = phase]]
    BY DEF To
  <2>3. QED
    BY <2>1, <2>2 DEF Logins
<1>2. Reserved'
  BY <1>1 DEF AccountsInv, Reserved
<1>3. KeptFree' /\ OneServicePerAccount'
  BY DEF AccountsInv, KeptFree, OneServicePerAccount
<1>4. QED
  BY <1>2, <1>3 DEF AccountsInv

\* rollbackAuthorizationAttempt gives back the owner it finds.
LEMMA SessionFailsKeepsOwner ==
    ASSUME TokensIInv, NEW s \in Service, SessionFails(s), NEW t \in Service \ crossed'
    PROVE  owner'[t] = owner[t]
<1>1. crossed' = crossed /\ Apart(t) /\ begin[s].phase = "marked"
  BY DEF SessionFails, TokensIInv, Local
<1>2. UNCHANGED owner \/ (Mine(s) /\ owner' = [owner EXCEPT ![s] = begin[s].had])
  BY DEF SessionFails, Restored
<1>3. QED
  BY <1>1, <1>2 DEF TokensIInv, TypeOK, Apart, SignedOut

LEMMA BeginsKeepsInv ==
    ASSUME TokensAssumption, AccountsInv, TokensIInv', NEW s \in Service, Begins(s)
    PROVE  AccountsInv'
<1>1. CASE SessionFails(s)
  <2>1. \A t \in Service \ crossed' : owner'[t] = owner[t]
    BY <1>1, SessionFailsKeepsOwner DEF AccountsInv
  <2>2. UNCHANGED <<pending, login, crossed>>
    BY <1>1 DEF SessionFails
  <2>3. QED
    BY <2>1, <2>2, Aside
<1>2. CASE ~SessionFails(s)
  <2>1. UNCHANGED <<owner, pending, login, crossed>>
    BY <1>2
       DEF Begins, ReserveAttempt, InvalidateForBegin, MarkAuthorizing, StartSession,
           FinishStart
  <2>2. QED
    BY <2>1, Aside
<1>3. QED
  BY <1>1, <1>2

LEMMA CompleteKeepsInv ==
    ASSUME AccountsInv, TokensIInv', NEW s \in Service, NEW a \in ProviderAccount, Complete(s, a)
    PROVE  AccountsInv'
<1>1. /\ UNCHANGED <<owner, pending, crossed>>
      /\ login' = [login EXCEPT ![s] = [phase |-> "signed", session |-> session[s].id, account |-> a]]
  BY DEF Complete
<1>2. login'[s].phase = "signed" /\ \A t \in Service \ {s} : login'[t] = login[t]
  BY <1>1 DEF AccountsInv, TokensIInv, TypeOK
<1>3. Reserved'
  BY <1>1, <1>2 DEF AccountsInv, Reserved, Holding, Storing
<1>4. KeptFree' /\ OneServicePerAccount'
  BY <1>1 DEF AccountsInv, KeptFree, OneServicePerAccount
<1>5. QED
  BY <1>3, <1>4 DEF AccountsInv

LEMMA ReserveKeepsInv ==
    ASSUME AccountsInv, TokensIInv', NEW s \in Service, ReserveAccount(s)
    PROVE  AccountsInv'
<1>1. At(s, "signed") /\ UNCHANGED owner /\ crossed \subseteq crossed'
  BY DEF ReserveAccount, Meets
<1>2. CASE ~(Current(s) /\ Free(s, login[s].account))
  <2>1. To(s, "failed") /\ UNCHANGED pending
    BY <1>2 DEF ReserveAccount
  <2>2. QED
    BY <1>1, <2>1, LoginStep DEF Holding, Storing
<1>3. CASE Current(s) /\ Free(s, login[s].account)
  <2>1. PICK a : a = login[s].account
    OBVIOUS
  <2>2. /\ login[s] \in Logins /\ login \in [Service -> Logins]
        /\ pending \in [ProviderAccount -> SUBSET Service]
    BY DEF AccountsInv, TokensIInv, TypeOK
  <2>3. /\ a \in ProviderAccount
        /\ \A t \in Service : login[t].phase \in Holding => login[t].account \in ProviderAccount
    BY <1>1, <2>1 DEF AccountsInv, TokensIInv, Local, Operations, At, Holding, Storing
  <2>4. /\ pending' = [pending EXCEPT ![a] = {s}]
        /\ login' = [login EXCEPT ![s] = [login[s] EXCEPT !.phase = "reserved"]]
        /\ \A t \in Service \ {s} : owner[t] # a
        /\ pending[a] \subseteq {s}
    BY <1>3, <2>1 DEF ReserveAccount, To, Free
  <2>5. /\ login'[s].phase = "reserved" /\ login'[s].account = a
        /\ \A t \in Service \ {s} : login'[t] = login[t]
    BY <2>1, <2>2, <2>4 DEF Logins
  <2>6. /\ pending'[a] = {s}
        /\ \A b \in ProviderAccount \ {a} : pending'[b] = pending[b]
        /\ \A b \in ProviderAccount : pending[b] \subseteq pending'[b]
    BY <2>2, <2>3, <2>4
  <2>7. Reserved'
    <3>1. ASSUME NEW t \in Service, login'[t].phase \in Holding
          PROVE  t \in pending'[login'[t].account]
      <4>1. CASE t = s
        BY <2>5, <2>6, <4>1
      <4>2. CASE t # s
        BY <2>3, <2>5, <2>6, <3>1, <4>2 DEF AccountsInv, Reserved
      <4>3. QED
        BY <4>1, <4>2
    <3>2. \A b \in ProviderAccount : \A t, u \in pending'[b] : t = u
      BY <2>6 DEF AccountsInv, Reserved
    <3>3. QED
      BY <3>1, <3>2 DEF Reserved
  <2>8. KeptFree'
    BY <1>1, <2>4, <2>6 DEF AccountsInv, KeptFree
  <2>9. OneServicePerAccount'
    BY <1>1 DEF AccountsInv, OneServicePerAccount
  <2>10. QED
    BY <2>7, <2>8, <2>9 DEF AccountsInv
<1>4. QED
  BY <1>2, <1>3

LEMMA ConnectKeepsInv ==
    ASSUME AccountsInv, TokensIInv', NEW s \in Service, Connect(s)
    PROVE  AccountsInv'
<1>1. At(s, "put") /\ UNCHANGED pending /\ crossed \subseteq crossed'
  BY DEF Connect, Meets
<1>2. CASE ~Current(s)
  <2>1. To(s, "superseded") /\ UNCHANGED owner
    BY <1>2 DEF Connect
  <2>2. QED
    BY <1>1, <2>1, LoginStep DEF At, Holding, Storing
<1>3. CASE Current(s)
  <2>1. PICK a : a = login[s].account
    OBVIOUS
  <2>2. /\ login[s] \in Logins /\ login \in [Service -> Logins]
        /\ owner \in [Service -> ProviderAccount \cup {NoAccount}]
    BY DEF AccountsInv, TokensIInv, TypeOK
  <2>3. a \in ProviderAccount /\ s \in pending[a]
    BY <1>1, <2>1 DEF AccountsInv, TokensIInv, Local, Operations, At, Reserved, Holding, Storing
  <2>4. /\ owner' = [owner EXCEPT ![s] = a]
        /\ login' = [login EXCEPT ![s] = [login[s] EXCEPT !.phase = "connected"]]
    BY <1>3, <2>1 DEF Connect, To
  <2>5. /\ login'[s].phase = "connected" /\ login'[s].account = a
        /\ \A t \in Service \ {s} : login'[t] = login[t]
    BY <2>1, <2>2, <2>4 DEF Logins
  <2>6. /\ owner'[s] = a /\ \A t \in Service \ {s} : owner'[t] = owner[t]
        /\ \A t \in Service \ crossed : t # s => owner[t] # a
    BY <2>2, <2>3, <2>4 DEF AccountsInv, KeptFree
  <2>7. Reserved'
    BY <1>1, <2>3, <2>5 DEF AccountsInv, Reserved
  <2>8. KeptFree'
    <3>1. ASSUME NEW b \in ProviderAccount, NEW u \in pending'[b],
                 NEW t \in Service \ crossed', t # u
          PROVE  owner'[t] # b
      <4>1. CASE t # s
        BY <1>1, <2>6, <3>1, <4>1 DEF AccountsInv, KeptFree
      <4>2. CASE t = s
        BY <1>1, <2>3, <2>6, <3>1, <4>2 DEF AccountsInv, Reserved
      <4>3. QED
        BY <4>1, <4>2
    <3>2. QED
      BY <3>1 DEF KeptFree
  <2>9. OneServicePerAccount'
    BY <1>1, <2>6 DEF AccountsInv, OneServicePerAccount
  <2>10. QED
    BY <2>7, <2>8, <2>9 DEF AccountsInv
<1>4. QED
  BY <1>2, <1>3

LEMMA CompletedKeepsInv ==
    ASSUME AccountsInv, TokensIInv', NEW s \in Service, Completed(s)
    PROVE  AccountsInv'
<1>1. /\ UNCHANGED <<owner, crossed>>
      /\ pending' = [a \in ProviderAccount |-> pending[a] \ {s}]
      /\ login' = [login EXCEPT ![s] = NoLogin]
  BY DEF Completed
<1>2. login'[s].phase = "idle" /\ \A t \in Service \ {s} : login'[t] = login[t]
  BY <1>1 DEF AccountsInv, TokensIInv, TypeOK, NoLogin
<1>3. /\ \A a \in ProviderAccount : pending'[a] \subseteq pending[a]
      /\ \A a \in ProviderAccount : \A t \in pending[a] : t # s => t \in pending'[a]
  BY <1>1
<1>4. Reserved'
  <2>1. ASSUME NEW t \in Service, login'[t].phase \in Holding
        PROVE  t \in pending'[login'[t].account]
    <3>1. t # s /\ login'[t] = login[t]
      BY <1>2, <2>1 DEF Holding, Storing
    <3>2. login[t].account \in ProviderAccount
      BY <2>1, <3>1 DEF AccountsInv, TokensIInv, Local, Operations, At, Holding, Storing
    <3>3. QED
      BY <1>3, <2>1, <3>1, <3>2 DEF AccountsInv, Reserved
  <2>2. QED
    BY <1>3, <2>1 DEF AccountsInv, Reserved
<1>5. KeptFree' /\ OneServicePerAccount'
  BY <1>1, <1>3 DEF AccountsInv, KeptFree, OneServicePerAccount
<1>6. QED
  BY <1>4, <1>5 DEF AccountsInv

LEMMA SignsInKeepsInv ==
    ASSUME AccountsInv, TokensIInv', NEW s \in Service, SignsIn(s)
    PROVE  AccountsInv'
<1>1. CASE ReserveAccount(s) \/ Connect(s) \/ Completed(s)
  BY <1>1, ReserveKeepsInv, ConnectKeepsInv, CompletedKeepsInv
<1>2. CASE InvalidateForLogin(s)
  BY <1>2, LoginStep DEF InvalidateForLogin, At, Holding, Storing
<1>3. CASE PutLogin(s)
  <2>1. At(s, "off") /\ (To(s, "put") \/ To(s, "failed")) /\ UNCHANGED <<owner, pending, crossed>>
    BY <1>3 DEF PutLogin
  <2>2. QED
    BY <2>1, LoginStep DEF At, Holding, Storing
<1>4. CASE ActivateLogin(s)
  BY <1>4, LoginStep DEF ActivateLogin, At, Holding, Storing
<1>5. CASE TakeBack(s)
  BY <1>5, LoginStep DEF TakeBack, At, Holding, Storing
<1>6. QED
  BY <1>1, <1>2, <1>3, <1>4, <1>5 DEF SignsIn

\* Signing out frees the account, or leaves it as it is.
LEMMA SignsOutKeepsInv ==
    ASSUME TokensAssumption, AccountsInv, TokensIInv', NEW s \in Service,
           StartLogout(s) \/ SignsOut(s)
    PROVE  AccountsInv'
<1>1. UNCHANGED <<pending, login, crossed>>
  BY DEF StartLogout, SignsOut, EndSessions, InvalidateForLogout, RemoveLogin, EndLogout
<1>2. UNCHANGED owner \/ owner' = [owner EXCEPT ![s] = NoAccount]
  BY DEF StartLogout, SignsOut, EndSessions, InvalidateForLogout, RemoveLogin, EndLogout
<1>3. \A t \in Service \ crossed' : owner'[t] \in {owner[t], NoAccount}
  BY <1>2 DEF AccountsInv, TokensIInv, TypeOK
<1>4. QED
  BY <1>1, <1>3, Aside

\* Refreshes, callers, and the sessions that end by themselves.
LEMMA OthersKeepInv ==
    ASSUME TokensAssumption, AccountsInv, TokensIInv',
           \/ \E s \in Service : \/ RefreshAnswered(s) \/ Expire(s) \/ CancelSession(s)
                                 \/ FindEnded(s) \/ Reconcile(s)
                                 \/ \E c \in Caller : Ask(c, s)
           \/ \E c \in Caller : ReadStore(c) \/ UseToken(c) \/ Done(c) \/ Refresh(c)
           \/ UNCHANGED vars
    PROVE  AccountsInv'
<1>1. UNCHANGED <<owner, pending, login>> /\ crossed \subseteq crossed'
  BY DEF RefreshAnswered, Renewed, PutRenewed, RefreshFails, Rejected, OnInvalidGrant, Expire,
     CancelSession, FindEnded, Reconcile, Meets, Ask, ReadStore, UseToken, Done, Refresh, vars
<1>2. QED
  BY <1>1, Aside

LEMMA StepKeepsAccountsInv ==
    ASSUME TokensAssumption, AccountsInv, [Next]_vars
    PROVE  AccountsInv'
<1>1. TokensIInv'
  BY StepKeepsTokensIInv DEF AccountsInv
<1>2. ASSUME NEW s \in Service, Begins(s) PROVE AccountsInv'
  BY <1>1, <1>2, BeginsKeepsInv
<1>3. ASSUME NEW s \in Service, SignsIn(s) PROVE AccountsInv'
  BY <1>1, <1>3, SignsInKeepsInv
<1>4. ASSUME NEW s \in Service, StartLogout(s) \/ SignsOut(s) PROVE AccountsInv'
  BY <1>1, <1>4, SignsOutKeepsInv
<1>5. ASSUME NEW s \in Service, NEW a \in ProviderAccount, Complete(s, a) PROVE AccountsInv'
  BY <1>1, <1>5, CompleteKeepsInv
<1>6. QED
  BY <1>1, <1>2, <1>3, <1>4, <1>5, OthersKeepInv DEF Next

-----------------------------------------------------------------------------
LEMMA InvMeansTokensInv == ASSUME TokensAssumption, AccountsInv PROVE TokensInv
<1>1. ASSUME NEW s \in Service
      PROVE  /\ status[s] \in {"disconnected", "authorizing", "connected", "needs_reauth"}
             /\ owner[s] \in ProviderAccount \cup {NoAccount} /\ stored[s] \in Credential
  <2>1. Typed(s) /\ Numbers(s) /\ Counted(s) /\ Bounded
    BY TypedAt DEF AccountsInv, TokensIInv, Local
  <2>2. stored[s].login \in 0 .. MaxLogins /\ stored[s].renewed \in 0 .. MaxRefreshes
    BY <2>1 DEF TokensAssumption, Numbers, Counted, Bounded
  <2>3. QED
    BY <2>1, <2>2 DEF Typed, Statuses, Credential
<1>2. ASSUME NEW s \in Service \ crossed, login[s].phase = "put" \/ logout[s] = "removed"
      PROVE  Invalid(s) /\ inflight[s] = NoCall
  BY <1>2 DEF AccountsInv, TokensIInv, Local, Apart, Alone
<1>3. QED
  BY <1>1, <1>2 DEF TokensInv

LEMMA InvMeansStatusMatchesStore == ASSUME AccountsInv PROVE StatusMatchesStore
<1>1. SignedOutMeansRemoved
  BY DEF AccountsInv, TokensIInv, Local, Apart, SignedOut, LeftBehind, SignedOutMeansRemoved
<1>2. ConnectedIsUsable
  BY DEF AccountsInv, TokensIInv, Local, Apart, Usable, ConnectedIsUsable, At
<1>3. QED
  BY <1>1, <1>2 DEF StatusMatchesStore

LEMMA Invariance == Spec => []AccountsInv
<1>1. Init => AccountsInv
  BY TokensAssumption, InitAccountsInv
<1>2. AccountsInv /\ [Next]_vars => AccountsInv'
  BY TokensAssumption, StepKeepsAccountsInv
<1>3. QED
  BY <1>1, <1>2, PTL DEF Spec

\* Who stores a login or removes one does it alone: the tokens are switched off and no
\* refresh is under way that could write over it (invalidateAndWait).
THEOREM OneWriterAtATime == Spec => []TokensInv
<1>1. AccountsInv => TokensInv
  BY TokensAssumption, InvMeansTokensInv
<1>2. QED
  BY <1>1, Invariance, PTL

\* An account that is signed out has no credential but one that a superseded login
\* left behind because its removal failed (persistAuthorizedTokens drops that error),
\* and no account is shown as connected with such a one; an account shown as
\* connected has a credential and the use of it, however sign-ins, refreshes and
\* sign-outs interleave.
THEOREM AccountsMatchTheStore == Spec => []StatusMatchesStore
<1>1. AccountsInv => StatusMatchesStore
  BY InvMeansStatusMatchesStore
<1>2. QED
  BY <1>1, Invariance, PTL

\* Two services never share a provider account, however their logins, sign-outs
\* and cancellations interleave: persistAuthorizedTokens reserves the account
\* before it stores anything, and drops the reservation when the login is over.
THEOREM AccountsAreNotShared == Spec => []OneServicePerAccount
<1>1. AccountsInv => OneServicePerAccount
  BY DEF AccountsInv
<1>2. QED
  BY <1>1, Invariance, PTL
=============================================================================
