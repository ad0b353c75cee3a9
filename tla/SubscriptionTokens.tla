------------------------- MODULE SubscriptionTokens -------------------------
(***************************************************************************)
(* The stored login of a subscription: signing in replaces it, a refresh   *)
(* renews it, signing out removes it, and callers read it meanwhile        *)
(* (core/internal/subscription/manager.go, accountauth/refresh.go and      *)
(* accountauth/session.go).                                                *)
(*                                                                         *)
(* A credential is the number of the login it comes from and the number of *)
(* times it was refreshed.  What the provider answers is left open.        *)
(***************************************************************************)
EXTENDS Naturals, FiniteSets

CONSTANTS
    Service, Caller,
    ProviderAccount,             \* accounts a user may sign in to
    MaxLogins, MaxSignOuts, MaxRefreshes,
    MaxFaults,                   \* calls that fail although they need not
    NoAccount

ASSUME TokensAssumption ==
    /\ Service # {} /\ NoAccount \notin ProviderAccount
    /\ MaxLogins \in Nat /\ MaxSignOuts \in Nat /\ MaxRefreshes \in Nat /\ MaxFaults \in Nat

VARIABLES
    status,      \* account.Status
    owner,       \* account.ProviderAccountID
    stored,      \* the credential store
    lifecycle,   \* tokenLifecycle of the token source
    inflight,    \* TokenSource.inflight
    waits,       \* the operations waiting for the refresh in flight to end
    callers,     \* the callers of AccessToken
    attempt,     \* authorizationAttempts
    session,     \* the SessionManager's session of the service
    pending,     \* pendingProviderAccounts
    transition,  \* lifecycleTransitions
    begin, login, logout, cancel,   \* where each operation stands
    crossed,     \* history: where a step of one attempt has met another attempt
    left,        \* history: where the credential of a superseded login could not be removed
    started, signOuts, refreshes, faults

operations == <<begin, login, logout, cancel>>
account == <<status, owner>>
source == <<lifecycle, inflight, waits>>
counters == <<crossed, left, started, signOuts, refreshes, faults>>
vars == <<account, stored, source, callers, attempt, session, pending, transition,
          operations, counters>>

None == [login |-> 0, renewed |-> 0]
NoCall == [phase |-> "none", generation |-> 0, from |-> None]
NoAttempt == [id |-> 0, starting |-> FALSE, session |-> 0, completed |-> FALSE]
NoSession == [id |-> 0, state |-> "none"]
NoLogin == [phase |-> "idle", session |-> 0, account |-> NoAccount]
Idle == [phase |-> "idle", id |-> 0, was |-> "disconnected", had |-> NoAccount]
NoCancel == [phase |-> "idle", session |-> 0]
NoCaller == [phase |-> "idle", service |-> CHOOSE s \in Service : TRUE, got |-> None]

Init ==
    /\ status = [s \in Service |-> "disconnected"]
    /\ owner = [s \in Service |-> NoAccount]
    /\ stored = [s \in Service |-> None]
    /\ lifecycle = [s \in Service |-> [generation |-> 0, invalidated |-> FALSE]]
    /\ inflight = [s \in Service |-> NoCall] /\ waits = [s \in Service |-> {}]
    /\ callers = [c \in Caller |-> NoCaller]
    /\ attempt = [s \in Service |-> NoAttempt]
    /\ session = [s \in Service |-> NoSession]
    /\ pending = [a \in ProviderAccount |-> {}]
    /\ transition = [s \in Service |-> FALSE]
    /\ begin = [s \in Service |-> Idle] /\ login = [s \in Service |-> NoLogin]
    /\ logout = [s \in Service |-> "idle"] /\ cancel = [s \in Service |-> NoCancel]
    /\ crossed = {} /\ left = {} /\ started = 0 /\ signOuts = 0 /\ refreshes = 0 /\ faults = 0

Set(f, s, v) == [f EXCEPT ![s] = v]
Invalid(s) == lifecycle[s].invalidated
Moved(s, off) ==
    Set(lifecycle, s, [generation |-> lifecycle[s].generation + 1, invalidated |-> off])
\* An operation makes the source inactive and waits for the refresh it finds.
\* Mutant of Invalidate: the refresh in flight is not waited for.
InvalidateAtOnce(s, op) ==
    /\ lifecycle' = Moved(s, TRUE)
    /\ UNCHANGED <<waits, inflight>>
Invalidate(s, op) ==
    /\ lifecycle' = Moved(s, TRUE)
    /\ waits' = IF inflight[s] = NoCall THEN waits ELSE Set(waits, s, waits[s] \cup {op})
    /\ UNCHANGED inflight
Fault == faults < MaxFaults /\ faults' = faults + 1
Mine(s) == attempt[s].id # 0 /\ attempt[s].id = begin[s].id
\* What goes back to one session has found the attempt of another.
Meets(s, id) ==
    crossed' = IF attempt[s].id \in {0, id} THEN crossed ELSE crossed \cup {s}

-----------------------------------------------------------------------------
\* BeginAuthorization: an attempt is reserved, the tokens are switched off,
\* the account is marked, the session starts, and the attempt learns of it.
ReserveAttempt(s) ==
    /\ begin[s].phase = "idle" /\ started < MaxLogins
    /\ ~transition[s] /\ attempt[s] = NoAttempt
    /\ started' = started + 1
    /\ attempt' = Set(attempt, s, [NoAttempt EXCEPT !.id = started', !.starting = TRUE])
    /\ begin' = Set(begin, s, [Idle EXCEPT !.phase = "reserved", !.id = started'])
    /\ UNCHANGED <<account, stored, source, callers, session, pending, transition, login,
                   logout, cancel, crossed, left, signOuts, refreshes, faults>>

InvalidateForBegin(s) ==
    /\ begin[s].phase = "reserved"
    /\ Invalidate(s, "begin")
    /\ begin' = Set(begin, s, [begin[s] EXCEPT !.phase = "off"])
    /\ UNCHANGED <<account, stored, callers, attempt, session, pending, transition,
                   login, logout, cancel, counters>>

\* markAuthorizing, or the attempt was interrupted and is given up.
MarkAuthorizing(s) ==
    /\ begin[s].phase = "off" /\ "begin" \notin waits[s]
    /\ IF Mine(s) /\ ~transition[s]
       THEN /\ status' = Set(status, s, "authorizing")
            /\ begin' = Set(begin, s, [phase |-> "marked", id |-> begin[s].id,
                                      was |-> status[s], had |-> owner[s]])
            /\ UNCHANGED attempt
       ELSE /\ attempt' = IF Mine(s) THEN Set(attempt, s, NoAttempt) ELSE attempt
            /\ begin' = Set(begin, s, Idle)
            /\ UNCHANGED status
    /\ UNCHANGED <<owner, stored, source, callers, session, pending, transition, login,
                   logout, cancel, counters>>

StartSession(s) ==
    /\ begin[s].phase = "marked" /\ session[s].state \notin {"pending", "completing"}
    /\ session' = Set(session, s, [id |-> begin[s].id, state |-> "pending"])
    /\ begin' = Set(begin, s, [begin[s] EXCEPT !.phase = "begun", !.was = Idle.was, !.had = Idle.had])
    /\ UNCHANGED <<account, stored, source, callers, attempt, pending, transition, login,
                   logout, cancel, counters>>

\* rollbackAuthorizationAttempt: the account is as before.
Restored(s) ==
    /\ status' = Set(status, s, begin[s].was) /\ owner' = Set(owner, s, begin[s].had)
    /\ IF begin[s].was = "connected" THEN lifecycle' = Moved(s, FALSE) ELSE UNCHANGED lifecycle
    /\ UNCHANGED <<inflight, waits>>

SessionFails(s) ==
    /\ begin[s].phase = "marked"
    /\ IF session[s].state \in {"pending", "completing"} THEN UNCHANGED faults ELSE Fault
    /\ IF Mine(s) /\ ~transition[s]
       THEN attempt' = Set(attempt, s, NoAttempt) /\ Restored(s)
       ELSE UNCHANGED <<attempt, account, source>>
    /\ begin' = Set(begin, s, Idle)
    /\ UNCHANGED <<stored, callers, session, pending, transition, login, logout, cancel,
                   crossed, left, started, signOuts, refreshes>>

\* finishAuthorizationStart: the login may be complete already, and an attempt
\* that was interrupted takes its session with it.
FinishStart(s) ==
    /\ begin[s].phase = "begun"
    /\ IF Mine(s) /\ ~transition[s] /\ attempt[s].session \in {0, begin[s].id}
       THEN /\ attempt' = Set(attempt, s,
                              IF attempt[s].completed THEN NoAttempt
                              ELSE [attempt[s] EXCEPT !.session = begin[s].id, !.starting = FALSE])
            /\ UNCHANGED session
       ELSE /\ session' = IF session[s].state = "pending"
                          THEN Set(session, s, [session[s] EXCEPT !.state = "ended"]) ELSE session
            /\ UNCHANGED attempt
    /\ begin' = Set(begin, s, Idle)
    /\ UNCHANGED <<account, stored, source, callers, pending, transition, login, logout,
                   cancel, counters>>

-----------------------------------------------------------------------------
\* completeSession and persistAuthorizedTokens: the user has signed in to a.
Complete(s, a) ==
    /\ session[s].state = "pending"
    /\ session' = Set(session, s, [session[s] EXCEPT !.state = "completing"])
    /\ login' = Set(login, s, [phase |-> "signed", session |-> session[s].id, account |-> a])
    /\ UNCHANGED <<account, stored, source, callers, attempt, pending, transition, begin,
                   logout, cancel, counters>>

\* The session ends: of itself, by failure, or because its time is over.
Expire(s) ==
    /\ session[s].state = "pending"
    /\ session' = Set(session, s, [session[s] EXCEPT !.state = "ended"])
    /\ UNCHANGED <<account, stored, source, callers, attempt, pending, transition,
                   operations, counters>>

At(s, phase) == login[s].phase = phase
To(s, phase) == login' = Set(login, s, [login[s] EXCEPT !.phase = phase])
Current(s) ==
    /\ ~transition[s] /\ attempt[s].id # 0
    /\ attempt[s].session \in {0, login[s].session}
\* Mutant of Free: only the accounts that are stored are looked at.
FreeOfStored(s, a) == \A t \in Service \ {s} : owner[t] # a
Free(s, a) ==
    /\ \A t \in Service \ {s} : owner[t] # a
    /\ pending[a] \subseteq {s}

ReserveAccount(s) ==
    /\ At(s, "signed")
    /\ IF Current(s) /\ Free(s, login[s].account)
       THEN /\ To(s, "reserved") /\ pending' = Set(pending, login[s].account, {s})
            /\ Meets(s, login[s].session)
       ELSE To(s, "failed") /\ UNCHANGED <<pending, crossed>>
    /\ UNCHANGED <<account, stored, source, callers, attempt, session, transition, begin,
                   logout, cancel, left, started, signOuts, refreshes, faults>>

InvalidateForLogin(s) ==
    /\ At(s, "reserved")
    /\ Invalidate(s, "login") /\ To(s, "off")
    /\ UNCHANGED <<account, stored, callers, attempt, session, pending, transition, begin,
                   logout, cancel, counters>>

PutLogin(s) ==
    /\ At(s, "off") /\ "login" \notin waits[s]
    /\ \/ /\ stored' = Set(stored, s, [login |-> login[s].session, renewed |-> 0])
          /\ left' = left \ {s} /\ To(s, "put") /\ UNCHANGED faults
       \/ Fault /\ To(s, "failed") /\ UNCHANGED <<stored, left>>
    /\ UNCHANGED <<account, source, callers, attempt, session, pending, transition, begin,
                   logout, cancel, crossed, started, signOuts, refreshes>>

Connect(s) ==
    /\ At(s, "put")
    /\ IF Current(s)
       THEN /\ status' = Set(status, s, "connected")
            /\ owner' = Set(owner, s, login[s].account)
            /\ attempt' = Set(attempt, s, IF attempt[s].starting
                              THEN [attempt[s] EXCEPT !.completed = TRUE, !.session = login[s].session]
                              ELSE NoAttempt)
            /\ To(s, "connected") /\ Meets(s, login[s].session)
       ELSE To(s, "superseded") /\ UNCHANGED <<account, attempt, crossed>>
    /\ UNCHANGED <<stored, source, callers, session, pending, transition, begin, logout,
                   cancel, left, started, signOuts, refreshes, faults>>

ActivateLogin(s) ==
    /\ At(s, "connected")
    /\ lifecycle' = Moved(s, FALSE) /\ To(s, "active")
    /\ UNCHANGED <<account, stored, inflight, waits, callers, attempt, session, pending,
                   transition, begin, logout, cancel, counters>>

\* Mutant of TakeBack: the credential of a superseded login stays stored.
TakeBackNothing(s) ==
    /\ At(s, "superseded") /\ To(s, "failed")
    /\ UNCHANGED <<account, stored, source, callers, attempt, session, pending, transition,
                   begin, logout, cancel, counters>>
\* A login that was superseded leaves no credential behind, if it can be removed:
\* what becomes of the removal is not looked at.
TakeBack(s) ==
    /\ At(s, "superseded") /\ To(s, "failed")
    /\ \/ /\ stored' = Set(stored, s, None) /\ left' = left \ {s}
          /\ UNCHANGED faults
       \/ /\ Fault /\ left' = left \cup {s}
          /\ UNCHANGED stored
    /\ UNCHANGED <<account, source, callers, attempt, session, pending, transition, begin,
                   logout, cancel, crossed, started, signOuts, refreshes>>

\* Mutant of Completed: a login that failed is never over.
CompletedOnSuccess(s) ==
    /\ login[s].phase = "active"
    /\ session' = Set(session, s, [session[s] EXCEPT !.state =
                      IF login[s].phase = "active" THEN "completed" ELSE "ended"])
    /\ pending' = [a \in ProviderAccount |-> pending[a] \ {s}]
    /\ login' = Set(login, s, NoLogin)
    /\ UNCHANGED <<account, stored, source, callers, attempt, transition, begin, logout,
                   cancel, counters>>
Completed(s) ==
    /\ login[s].phase \in {"active", "failed"}
    /\ session' = Set(session, s, [session[s] EXCEPT !.state =
                      IF login[s].phase = "active" THEN "completed" ELSE "ended"])
    /\ pending' = [a \in ProviderAccount |-> pending[a] \ {s}]
    /\ login' = Set(login, s, NoLogin)
    /\ UNCHANGED <<account, stored, source, callers, attempt, transition, begin, logout,
                   cancel, counters>>

-----------------------------------------------------------------------------
\* Logout: no session and no refresh is left when the credential is removed.
Disconnected(s) == IF owner[s] = NoAccount THEN "disconnected" ELSE "needs_reauth"

StartLogout(s) ==
    /\ logout[s] = "idle" /\ ~transition[s]
    /\ signOuts < MaxSignOuts /\ signOuts' = signOuts + 1
    /\ transition' = Set(transition, s, TRUE) /\ logout' = Set(logout, s, "started")
    /\ UNCHANGED <<account, stored, source, callers, attempt, session, pending, begin,
                   login, cancel, crossed, left, started, refreshes, faults>>

\* CancelAllForService waits for a login that is being completed.
EndSessions(s) ==
    /\ logout[s] = "started" /\ session[s].state # "completing"
    /\ session' = Set(session, s, [session[s] EXCEPT !.state =
                      IF session[s].state = "pending" THEN "ended" ELSE session[s].state])
    /\ attempt' = Set(attempt, s, NoAttempt)
    /\ logout' = Set(logout, s, "cleared")
    /\ UNCHANGED <<account, stored, source, callers, pending, transition, begin, login,
                   cancel, counters>>

InvalidateForLogout(s) ==
    /\ logout[s] = "cleared"
    /\ Invalidate(s, "logout") /\ logout' = Set(logout, s, "off")
    /\ UNCHANGED <<account, stored, callers, attempt, session, pending, transition, begin,
                   login, cancel, counters>>

\* A credential that cannot be removed ends the operation where it stands.
RemoveLogin(s) ==
    /\ logout[s] = "off" /\ "logout" \notin waits[s]
    /\ \/ /\ stored' = Set(stored, s, None) /\ logout' = Set(logout, s, "removed")
          /\ left' = left \ {s}
          /\ UNCHANGED <<transition, faults>>
       \/ /\ Fault /\ logout' = Set(logout, s, "idle")
          /\ transition' = Set(transition, s, FALSE)
          /\ UNCHANGED <<stored, left>>
    /\ UNCHANGED <<account, source, callers, attempt, session, pending, begin, login,
                   cancel, crossed, started, signOuts, refreshes>>

EndLogout(s) ==
    /\ logout[s] = "removed"
    /\ status' = Set(status, s, "disconnected") /\ owner' = Set(owner, s, NoAccount)
    /\ attempt' = Set(attempt, s, NoAttempt)
    /\ transition' = Set(transition, s, FALSE) /\ logout' = Set(logout, s, "idle")
    /\ UNCHANGED <<stored, source, callers, session, pending, begin, login, cancel, counters>>

\* CancelAuthorization ends the session; GetAuthorization finds it ended, or finds
\* none, as while another is being started in its place.
CancelSession(s) ==
    /\ cancel[s] = NoCancel /\ session[s].state = "pending"
    /\ session' = Set(session, s, [session[s] EXCEPT !.state = "ended"])
    /\ cancel' = Set(cancel, s, [phase |-> "cancelled", session |-> session[s].id])
    /\ UNCHANGED <<account, stored, source, callers, attempt, pending, transition, begin,
                   login, logout, counters>>

FindEnded(s) ==
    /\ cancel[s] = NoCancel
    /\ \/ session[s].state \in {"none", "ended"}
       \/ session[s].state = "completed" /\ begin[s].phase = "marked"
    /\ cancel' = Set(cancel, s, [phase |-> "ended", session |-> session[s].id])
    /\ UNCHANGED <<account, stored, source, callers, attempt, session, pending, transition,
                   begin, login, logout, counters>>

\* Only then is the account reconciled, whatever attempt there is by now.
Reconcile(s) ==
    /\ cancel[s] # NoCancel
    /\ LET applies == status[s] = "authorizing"
           spared == cancel[s].phase = "ended" /\ (attempt[s].starting \/ ~applies)
       IN IF spared THEN UNCHANGED <<status, attempt, crossed>>
          ELSE /\ attempt' = Set(attempt, s, NoAttempt)
               /\ status' = IF applies THEN Set(status, s, Disconnected(s)) ELSE status
               /\ Meets(s, cancel[s].session)
    /\ cancel' = Set(cancel, s, NoCancel)
    /\ UNCHANGED <<owner, stored, source, callers, session, pending, transition, begin,
                   login, logout, left, started, signOuts, refreshes, faults>>

-----------------------------------------------------------------------------
\* AccessToken: the account is looked at, then the store, and a token that is
\* about to expire is refreshed by one call that all callers share.
Caller1(c, phase) == callers' = Set(callers, c, [callers[c] EXCEPT !.phase = phase])

Ask(c, s) ==
    /\ callers[c].phase = "idle"
    /\ status[s] = "connected" /\ ~transition[s] /\ ~Invalid(s)
    /\ callers' = Set(callers, c, [phase |-> "asked", service |-> s, got |-> None])
    /\ UNCHANGED <<account, stored, source, attempt, session, pending, transition,
                   operations, counters>>

ReadStore(c) ==
    LET s == callers[c].service
    IN /\ callers[c].phase = "asked"
       /\ callers' = Set(callers, c, IF stored[s] = None THEN NoCaller
                         ELSE [callers[c] EXCEPT !.phase = "read", !.got = stored[s]])
       /\ UNCHANGED <<account, stored, source, attempt, session, pending, transition,
                      operations, counters>>

\* Not yet expired: it is used unless the source was switched off meanwhile.
UseToken(c) ==
    /\ callers[c].phase = "read"
    /\ IF Invalid(callers[c].service) THEN callers' = Set(callers, c, NoCaller)
       ELSE Caller1(c, "used")
    /\ UNCHANGED <<account, stored, source, attempt, session, pending, transition,
                   operations, counters>>
Done(c) ==
    /\ callers[c].phase = "used" /\ callers' = Set(callers, c, NoCaller)
    /\ UNCHANGED <<account, stored, source, attempt, session, pending, transition,
                   operations, counters>>

Refresh(c) ==
    LET s == callers[c].service
    IN /\ callers[c].phase = "read" /\ refreshes < MaxRefreshes
       /\ IF Invalid(s) \/ inflight[s] # NoCall THEN UNCHANGED <<inflight, refreshes>>
          ELSE /\ refreshes' = refreshes + 1
               /\ inflight' = Set(inflight, s,
                      [phase |-> "asked", generation |-> lifecycle[s].generation,
                       from |-> callers[c].got])
       /\ callers' = Set(callers, c, NoCaller)
       /\ UNCHANGED <<account, stored, lifecycle, waits, attempt, session, pending,
                      transition, operations, crossed, left, started, signOuts, faults>>

Finished(s) == inflight' = Set(inflight, s, NoCall) /\ waits' = Set(waits, s, {})

\* refreshCanPersist, once the provider has renewed the token.
Renewed(s) ==
    /\ inflight[s].phase = "asked"
    /\ IF ~Invalid(s) /\ lifecycle[s].generation = inflight[s].generation
       THEN inflight' = Set(inflight, s, [inflight[s] EXCEPT !.phase = "renewed"])
            /\ UNCHANGED waits
       ELSE Finished(s)
    /\ UNCHANGED <<account, stored, lifecycle, callers, attempt, session, pending,
                   transition, operations, counters>>

PutRenewed(s) ==
    /\ inflight[s].phase = "renewed"
    /\ stored' = Set(stored, s, [inflight[s].from EXCEPT !.renewed = @ + 1])
    /\ Finished(s)
    /\ UNCHANGED <<account, lifecycle, callers, attempt, session, pending, transition,
                   operations, counters>>

RefreshFails(s) ==
    /\ inflight[s].phase # "none" /\ Fault /\ Finished(s)
    /\ UNCHANGED <<account, stored, lifecycle, callers, attempt, session, pending,
                   transition, operations, crossed, left, started, signOuts, refreshes>>

\* The provider does not know the token any more: invalid_grant.
Rejected(s) ==
    /\ inflight[s].phase = "asked"
    /\ inflight' = Set(inflight, s, [inflight[s] EXCEPT !.phase = "rejected"])
    /\ lifecycle' = Moved(s, TRUE)
    /\ UNCHANGED <<account, stored, waits, callers, attempt, session, pending, transition,
                   operations, counters>>

OnInvalidGrant(s) ==
    /\ inflight[s].phase = "rejected"
    /\ status' = IF status[s] = "connected" /\ ~transition[s]
                 THEN Set(status, s, "needs_reauth") ELSE status
    /\ Finished(s)
    /\ UNCHANGED <<owner, stored, lifecycle, callers, attempt, session, pending, transition,
                   operations, counters>>

-----------------------------------------------------------------------------
Begins(s) ==
    ReserveAttempt(s) \/ InvalidateForBegin(s) \/ MarkAuthorizing(s) \/ StartSession(s)
    \/ SessionFails(s) \/ FinishStart(s)
SignsIn(s) ==
    ReserveAccount(s) \/ InvalidateForLogin(s) \/ PutLogin(s) \/ Connect(s)
    \/ ActivateLogin(s) \/ TakeBack(s) \/ Completed(s)
SignsOut(s) ==
    EndSessions(s) \/ InvalidateForLogout(s) \/ RemoveLogin(s) \/ EndLogout(s)
RefreshAnswered(s) ==
    Renewed(s) \/ PutRenewed(s) \/ RefreshFails(s) \/ Rejected(s) \/ OnInvalidGrant(s)

Next ==
    \/ \E s \in Service :
        \/ Begins(s) \/ SignsIn(s) \/ StartLogout(s) \/ SignsOut(s) \/ RefreshAnswered(s)
        \/ Expire(s) \/ CancelSession(s) \/ FindEnded(s) \/ Reconcile(s)
        \/ \E a \in ProviderAccount : Complete(s, a)
        \/ \E c \in Caller : Ask(c, s)
    \/ \E c \in Caller : ReadStore(c) \/ UseToken(c) \/ Done(c) \/ Refresh(c)

Spec == Init /\ [][Next]_vars
\* Operations go on, and the provider's client has a time limit.
Fairness == \A s \in Service :
    WF_vars(Begins(s) /\ started' = started) /\ WF_vars(SignsIn(s)) /\ WF_vars(SignsOut(s))
    /\ WF_vars(RefreshAnswered(s))
FairSpec == Spec /\ Fairness

-----------------------------------------------------------------------------
Credential == [login : 0 .. MaxLogins, renewed : 0 .. MaxRefreshes]

\* While a login is being stored, and while one is being removed, nothing else
\* can write the credential: the refresh that was under way has ended, and no
\* other operation is where it writes.
TokensInv ==
    /\ \A s \in Service :
        /\ status[s] \in {"disconnected", "authorizing", "connected", "needs_reauth"}
        /\ owner[s] \in ProviderAccount \cup {NoAccount}
        /\ stored[s] \in Credential
    /\ \A s \in Service \ crossed :
        login[s].phase = "put" \/ logout[s] = "removed" =>
            Invalid(s) /\ inflight[s] = NoCall

\* Signing out leaves nothing: no refresh and no login that was under way
\* brings a credential back.  Who is not signed in has a credential only while a
\* login stores it, or where that of a superseded login could not be removed;
\* such a credential is nobody's: no account is shown as connected with it.
SignedOutMeansRemoved ==
    \A s \in Service \ crossed :
        /\ owner[s] = NoAccount /\ stored[s] # None =>
             login[s].phase \in {"put", "superseded"} \/ s \in left
        /\ s \in left => status[s] # "connected"

\* A provider account is connected through one service only.
OneServicePerAccount ==
    \A s, t \in Service \ crossed : s # t /\ owner[s] # NoAccount => owner[s] # owner[t]

\* An account shown as connected can be used: it has a credential, and unless
\* a sign-out failed, its tokens are switched on or about to be.
ConnectedIsUsable ==
    \A s \in Service \ crossed : status[s] = "connected" /\ ~transition[s] /\ faults = 0 =>
        /\ stored[s] # None
        /\ Invalid(s) => \/ begin[s].phase \in {"off", "marked"} \/ login[s].phase # "idle"
                         \/ inflight[s].phase = "rejected"

\* What is shown of an account and what the store holds agree.
StatusMatchesStore == SignedOutMeansRemoved /\ ConnectedIsUsable

\* Signing out and signing in end: neither waits for ever for the other.
OperationsEnd ==
    \A s \in Service : /\ logout[s] # "idle" ~> logout[s] = "idle"
                       /\ login[s].phase # "idle" ~> login[s].phase = "idle"
=============================================================================
