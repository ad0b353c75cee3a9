----------------------------- MODULE RequestList -----------------------------
(***************************************************************************)
(* The list of conversations on the request records page: pages of Core's  *)
(* list, newest first, kept up to date by a poll of the first page, while  *)
(* the operator scrolls, reads earlier pages and deletes                   *)
(* (apps/desktop/src/RequestRecords.tsx and session-live-model.ts, against *)
(* core/internal/storage/sqlite/request_session_store.go and               *)
(* request_record_store.go).                                               *)
(*                                                                         *)
(* A row holds the times of a conversation's newest call and of its latest *)
(* change.  The order of rows inside the list is not part of the state.    *)
(***************************************************************************)
EXTENDS Naturals, FiniteSets

CONSTANTS
    Session,
    Limit,          \* PAGE_LIMIT
    MaxEvents       \* bound on changes, visits, deletions, scrolls and failures

\* What the instances and the proofs assume of the constants.
ListAssumption ==
    /\ IsFiniteSet(Session) /\ Limit \in Nat \ {0} /\ MaxEvents \in Nat

VARIABLES
    core, clock,    \* Core's conversations, and the number of changes so far
    items,          \* live.items and live.queued: the rows the page has
    queued,         \* which of them are held back
    cursor,         \* live.nextCursor: the call time of the last row read, or 0
    following,      \* atTopRef, on the monitor and not selecting
    read,           \* the load or poll in flight (pollInFlightRef)
    more,           \* loadMore
    del,            \* commitDeleteSessions or commitPurge
    seen,           \* history: when the first page the list shows was read
    stray,          \* history: deletions the list could not follow
    events          \* how many of the bounded events have happened

list == <<items, queued, cursor>>
history == <<seen, stray>>
vars == <<core, clock, items, queued, cursor, following, read, more, del, history, events>>

NoRow == [at |-> 0, changed |-> 0]
NoRows == [s \in Session |-> NoRow]
NoPage == [rows |-> NoRows, next |-> 0, at |-> 0]
NoRead == [phase |-> "idle", load |-> FALSE, page |-> NoPage]
NoMore == [phase |-> "idle", from |-> 0, page |-> NoPage]
NoDelete == [phase |-> "idle", purge |-> FALSE, gone |-> {}, current |-> FALSE, page |-> NoPage]
Load == [NoRead EXCEPT !.phase = "sent", !.load = TRUE]

In(rows) == {s \in Session : rows[s] # NoRow}
Existing == {s \in Session : core[s].at > 0}
Event == events < MaxEvents /\ events' = events + 1

Init ==
    /\ \E n \in 0 .. Cardinality(Session) :
        \E old \in [Session -> 0 .. n] :
            /\ \A i \in 1 .. n : \E s \in Session : old[s] = i
            /\ \A s, t \in Session : s # t /\ old[s] = old[t] => old[s] = 0
            /\ core = [s \in Session |-> [at |-> old[s], changed |-> old[s]]]
            /\ clock = n
    /\ items = NoRows /\ queued = {} /\ cursor = 0 /\ following = TRUE
    /\ read = Load /\ more = NoMore /\ del = NoDelete
    /\ seen = clock /\ stray = {}
    /\ events = 0

-----------------------------------------------------------------------------
\* Core: conversations begin, get another call, and change without one (a call
\* ends, or a purge takes the old calls).  Not more than a page of them get a
\* call since the first page that the list shows, or one on its way, was read,
\* and none that the operator has just chosen to delete.
Reads ==
    {seen} \cup (IF read.phase = "read" THEN {read.page.at} ELSE {})
           \cup (IF del.phase = "read" THEN {del.page.at} ELSE {})
Called(s) ==
    /\ s \in Existing \/ core[s] = NoRow
    /\ s \notin del.gone
    /\ \A at \in Reads : Cardinality({s} \cup {t \in Existing : core[t].at > at}) <= Limit
    /\ core' = [core EXCEPT ![s] = [at |-> clock + 1, changed |-> clock + 1]]
Updated(s) ==
    /\ s \in Existing
    /\ core' = [core EXCEPT ![s].changed = clock + 1]
CoreChanges ==
    /\ Event /\ clock' = clock + 1
    /\ \E s \in Session : Called(s) \/ Updated(s)
    /\ UNCHANGED <<list, following, read, more, del, history>>

\* A page: the newest conversations older than the cursor, 0 for the first.
PageFrom(from) ==
    LET rest == {s \in Existing : from = 0 \/ core[s].at < from}
        taken == {s \in rest : Cardinality({t \in rest : core[t].at > core[s].at}) < Limit}
    IN [rows |-> [s \in Session |-> IF s \in taken THEN core[s] ELSE NoRow],
        next |-> IF taken = rest THEN 0
                 ELSE CHOOSE at \in {core[s].at : s \in taken} :
                        \A s \in taken : core[s].at >= at,
        at |-> clock]

-----------------------------------------------------------------------------
\* The effect of the list: the page is opened again, another kind or filter
\* was chosen and taken back, or Core was away, which empties the list.  What
\* is in flight is not looked at any more.
Visit ==
    /\ Event
    /\ following' = TRUE /\ read' = Load /\ more' = NoMore
    /\ del' = [del EXCEPT !.current = FALSE]
    /\ \/ UNCHANGED list
       \/ items' = NoRows /\ queued' = {} /\ cursor' = 0
    /\ UNCHANGED <<core, clock, history>>

\* Core takes up the load, or the next poll, which waits for the one before.
LoadServed == read.phase = "sent"
PollServed == read.phase = "idle"
ReadServed ==
    /\ LoadServed \/ PollServed
    /\ read' = [read EXCEPT !.phase = "read", !.page = PageFrom(0)]
    /\ UNCHANGED <<core, clock, list, following, more, del, history, events>>

ReadFails ==
    /\ read.phase # "idle" /\ Event
    /\ read' = NoRead
    /\ UNCHANGED <<core, clock, list, following, more, del, history>>

\* The list becomes a page.
Replaced(page) ==
    /\ items' = page.rows /\ queued' = {} /\ cursor' = page.next
    /\ seen' = page.at

\* mergeLiveSessions: rows are updated, new ones added or held back.
Merged(page) ==
    /\ items' = [s \in Session |-> IF page.rows[s] # NoRow THEN page.rows[s] ELSE items[s]]
    /\ queued' = IF queued # {} \/ ~following THEN queued \cup (In(page.rows) \ In(items))
                 ELSE queued
    /\ cursor' = IF In(items) \ queued = {} THEN page.next ELSE cursor
    /\ seen' = IF page.at > seen THEN page.at ELSE seen

ReadAnswered ==
    /\ read.phase = "read"
    /\ read' = NoRead
    /\ IF read.load THEN Replaced(read.page) ELSE Merged(read.page)
    /\ UNCHANGED <<core, clock, following, more, del, stray, events>>

-----------------------------------------------------------------------------
\* The operator scrolls, selects, or asks for what is held back.
Scroll ==
    /\ Event
    /\ following' = ~following
    /\ UNCHANGED <<core, clock, list, read, more, del, history>>
ApplyQueue ==
    /\ queued # {}
    /\ queued' = {} /\ following' = TRUE
    /\ UNCHANGED <<core, clock, items, cursor, read, more, del, history, events>>

\* loadMore.  A page that follows a cursor the list has left is not used.
LoadMore ==
    /\ cursor # 0 /\ more.phase = "idle"
    /\ more' = [phase |-> "read", from |-> cursor, page |-> PageFrom(cursor)]
    /\ UNCHANGED <<core, clock, list, following, read, del, history, events>>

Appended(page) ==
    /\ items' = [s \in Session |-> IF items[s] # NoRow THEN items[s] ELSE page.rows[s]]
    /\ cursor' = page.next
    /\ UNCHANGED queued
\* Mutant of Usable: the page is used whatever the list has become.
UsableAlways == TRUE
Usable == cursor = more.from
MoreAnswered ==
    /\ more.phase = "read"
    /\ more' = NoMore
    /\ IF Usable THEN Appended(more.page) ELSE UNCHANGED list
    /\ UNCHANGED <<core, clock, following, read, del, history, events>>

MoreFails ==
    /\ more.phase # "idle" /\ Event
    /\ more' = NoMore
    /\ UNCHANGED <<core, clock, list, following, read, del, history>>

-----------------------------------------------------------------------------
\* The operator deletes conversations, selected or opened, or purges all those
\* without a call since some time, and confirms it.
Delete ==
    /\ Event
    /\ del.phase = "idle"
    /\ \/ \E gone \in SUBSET (In(items) \ queued) \ {{}} :
         /\ del' = [NoDelete EXCEPT !.phase = "sent", !.gone = gone, !.current = TRUE]
         /\ following' = FALSE
       \/ /\ del' = [NoDelete EXCEPT !.phase = "sent", !.purge = TRUE, !.current = TRUE]
          /\ UNCHANGED following
    /\ UNCHANGED <<core, clock, list, read, more, history>>

\* PurgeRequestRecords.  A page that was read before is still to arrive.
Arriving == In(read.page.rows) \cup In(more.page.rows)
DeleteServed ==
    /\ del.phase = "sent"
    /\ \E before \in (IF del.purge THEN 1 .. clock + 1 ELSE {0}) :
        LET gone == IF del.purge THEN {s \in Existing : core[s].at < before} ELSE del.gone
        IN /\ core' = [s \in Session |-> IF s \in gone THEN [core[s] EXCEPT !.at = 0] ELSE core[s]]
           /\ stray' = stray \cup (gone \cap Arriving)
           /\ del' = [del EXCEPT !.phase = "done", !.gone = gone]
    /\ UNCHANGED <<clock, list, following, read, more, seen, events>>

\* dropFromList, then exitSelection, which lets what is held back arrive at the
\* top, or returnToMonitor, which does not.
Dropped(gone) ==
    /\ items' = [s \in Session |-> IF s \in gone THEN NoRow ELSE items[s]]
    /\ \/ following' \in BOOLEAN /\ queued' = queued \ gone
       \/ following' = TRUE /\ queued' = {}
    /\ UNCHANGED cursor

\* The deletion is answered.  A purge goes on to read the first page.
DeleteAnswered ==
    /\ del.phase = "done" /\ ~del.purge
    /\ del' = NoDelete
    /\ LET gone == IF del.current THEN del.gone ELSE {}
       IN Dropped(gone) /\ stray' = stray \cup (In(items) \cap (del.gone \ gone))
    /\ UNCHANGED <<core, clock, read, more, seen, events>>
PurgeReads ==
    /\ del.phase = "done" /\ del.purge
    /\ del' = [del EXCEPT !.phase = "read", !.page = PageFrom(0)]
    /\ UNCHANGED <<core, clock, list, following, read, more, history, events>>
PurgeAnswered ==
    /\ del.phase = "read"
    /\ del' = NoDelete
    /\ IF del.current THEN Replaced(del.page) /\ UNCHANGED stray
       ELSE UNCHANGED <<list, seen>> /\ stray' = stray \cup (del.gone \cap In(items))
    /\ UNCHANGED <<core, clock, following, read, more, events>>
\* The call fails, or its answer does not arrive, and the list stays as it is.
DeleteFails ==
    /\ del.phase # "idle" /\ Event
    /\ del' = NoDelete
    /\ stray' = IF del.phase = "sent" THEN stray ELSE stray \cup (del.gone \cap In(items))
    /\ UNCHANGED <<core, clock, list, following, read, more, seen>>

Next ==
    \/ CoreChanges
    \/ Visit \/ ReadServed \/ ReadFails \/ ReadAnswered
    \/ Scroll \/ ApplyQueue \/ LoadMore \/ MoreAnswered \/ MoreFails
    \/ Delete \/ DeleteServed \/ DeleteAnswered \/ PurgeReads \/ PurgeAnswered \/ DeleteFails

Spec == Init /\ [][Next]_vars
\* The poll goes on and is answered.
Fairness == WF_vars(ReadServed) /\ WF_vars(ReadAnswered)
FairSpec == Spec /\ Fairness

-----------------------------------------------------------------------------
\* What is held back is in the list, and a row is Core's or an older one.  A
\* row of a deleted conversation goes, unless its deletion is on its way, or a
\* page read before the deletion arrives after it.
RequestListInv ==
    /\ queued \subseteq In(items)
    /\ \A s \in In(items) \cap Existing :
        /\ items[s].changed <= core[s].changed
        /\ items[s].changed = core[s].changed => items[s] = core[s]
    /\ \A s \in In(items) \ Existing : s \in stray \cup del.gone

\* Whatever overtakes what, the list has no hole: it holds every conversation
\* down to where loadMore goes on, but those the poll has yet to bring.
ListHasNoGap ==
    In(items) # {} \/ cursor # 0 =>
        \A s \in Existing : cursor <= core[s].at /\ core[s].at <= seen => s \in In(items)

\* The list comes to show the newest conversations as they are.
Shown == \A s \in In(PageFrom(0).rows) : items[s] = core[s]
NewestAreShown == <>[]Shown
=============================================================================
