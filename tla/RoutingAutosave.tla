-------------------------- MODULE RoutingAutosave --------------------------
(***************************************************************************)
(* The routing page saves by itself: what has changed and is valid on top  *)
(* of the saved document is sent after a pause, one request at a time, and *)
(* the answer is merged into a draft the user goes on editing              *)
(* (apps/desktop/src/RoutingSettingsPanel.tsx).                            *)
(*                                                                         *)
(* A setting has a few numbered values and may be incomplete.  Two of them *)
(* are validated together, as the ends of the adaptive range are: the low  *)
(* end must not exceed the high one.                                       *)
(***************************************************************************)
EXTENDS Naturals, Sequences

CONSTANTS
    Keys,         \* the settings, in the order an autosave tries them
    Low, High,    \* the two that are validated together
    Redirects,    \* the one that is typed into a field: the redirects of models
    Values,       \* what a setting may be set to
    Incomplete,   \* the number that stands for a setting left incomplete
    MaxEdits, MaxFailures, MaxDowns

Setting == {Keys[i] : i \in 1 .. Len(Keys)}

\* What the instances assume of the constants.
AutosaveAssumption ==
    /\ Keys \in Seq(STRING) /\ Len(Keys) > 0
    /\ Low \in Setting /\ High \in Setting /\ Low # High /\ Redirects \in Setting
    /\ Values \subseteq Nat /\ Values # {} /\ Incomplete \in Nat \ Values
    /\ MaxEdits \in Nat /\ MaxFailures \in Nat /\ MaxDowns \in Nat

VARIABLES
    stored,     \* the settings Core has
    draft,      \* what the page shows
    baseline,   \* the last settings the page took for saved
    loaded,     \* the page has settings to show
    ready,      \* Core answers
    saving,     \* an autosave is under way
    loadError,  \* the last load failed
    error,      \* the last autosave failed and is not tried again
    typing,     \* editingRedirect: a field of the redirects has not been left yet
    calls,      \* the loads and the autosave in flight
    rebased,    \* history: a reading was taken over since the last autosave began
    edits, failures, downs

page == <<draft, baseline, loaded, loadError, error, typing>>
vars == <<stored, page, ready, saving, calls, rebased, edits, failures, downs>>

Document == [Setting -> Values \cup {Incomplete}]
Valid(doc) ==
    /\ \A k \in Setting : doc[k] # Incomplete
    /\ doc[Low] <= doc[High]
Dirty == loaded /\ draft # baseline

(***************************************************************************)
(* planAutosave: each changed setting is taken in if the document stays    *)
(* valid, over and over while one is accepted.                             *)
(***************************************************************************)
Accept(doc, want, k) ==
    LET candidate == [doc EXCEPT ![k] = want[k]]
    IN IF Valid(candidate) THEN candidate ELSE doc
PlanSent(original, want) ==
    LET passes == Len(Keys) * Len(Keys)
        accept == [doc \in Document |-> [k \in Setting |-> Accept(doc, want, k)]]
        sent[n \in 0 .. passes] ==
            IF n = 0 THEN original
            ELSE accept[sent[n - 1]][Keys[((n - 1) % Len(Keys)) + 1]]
    IN sent[passes]
Patch(original, sent) == {k \in Setting : sent[k] # original[k]}

Load == [kind |-> "load", phase |-> "asked", sent |-> stored, patch |-> {},
         unedited |-> TRUE, result |-> stored]
Save(sent, patch) ==
    [Load EXCEPT !.kind = "save", !.sent = sent, !.patch = patch]
WithoutLoads(cs) == {c \in cs : c.kind # "load"}
\* Every edit makes a new draft, even one back to an old value.
Edited(cs) == {[c EXCEPT !.unedited = FALSE] : c \in cs}

Init ==
    /\ stored \in {d \in [Setting -> Values] : Valid(d)}
    /\ draft = stored /\ baseline = stored /\ loaded = FALSE /\ loadError = FALSE
    /\ ready = FALSE /\ saving = FALSE /\ error = FALSE /\ typing = FALSE /\ rebased = FALSE
    /\ calls = {}
    /\ edits = 0 /\ failures = 0 /\ downs = 0

-----------------------------------------------------------------------------
\* Core becomes ready, or the user asks again after a load that failed: the
\* settings are read.  An earlier read no longer counts.
Read == calls' = WithoutLoads(calls) \cup {Load}

BecomeReady ==
    /\ ~ready
    /\ ready' = TRUE /\ Read
    /\ UNCHANGED <<stored, page, saving, rebased, edits, failures, downs>>

Reload ==
    /\ ready /\ loadError /\ Read
    /\ UNCHANGED <<stored, page, ready, saving, rebased, edits, failures, downs>>

GoDown ==
    /\ ready /\ downs < MaxDowns
    /\ ready' = FALSE /\ downs' = downs + 1
    /\ calls' = WithoutLoads(calls)
    /\ UNCHANGED <<stored, page, saving, rebased, edits, failures>>

\* Reconnection and retry must never replace an unsaved draft.
Taken(c) ==
    IF Dirty THEN UNCHANGED <<draft, baseline, rebased>>
    ELSE draft' = c.result /\ baseline' = c.result /\ rebased' = TRUE

LoadAnswered(c) ==
    /\ c.kind = "load"
    /\ IF c.phase = "served"
       THEN /\ Taken(c) /\ loaded' = TRUE /\ loadError' = FALSE
            /\ calls' = IF Dirty THEN calls \ {c} ELSE Edited(calls \ {c})
       ELSE /\ loadError' = TRUE /\ calls' = calls \ {c}
            /\ UNCHANGED <<draft, baseline, loaded, rebased>>
    /\ UNCHANGED <<error, typing, saving>>

-----------------------------------------------------------------------------
\* changeDraft.  What is typed into a field of the redirects is not saved before the
\* field is left; a choice from a list, a switch or a removal leaves none.
Edit(k, v) ==
    /\ loaded /\ ready /\ edits < MaxEdits
    /\ draft' = [draft EXCEPT ![k] = v]
    /\ typing' \in (IF k = Redirects THEN BOOLEAN ELSE {typing})
    /\ error' = FALSE
    /\ calls' = Edited(calls)
    /\ edits' = edits + 1
    /\ UNCHANGED <<stored, baseline, loaded, loadError, ready, saving, rebased,
                   failures, downs>>

LeaveField ==
    /\ typing /\ typing' = FALSE
    /\ UNCHANGED <<stored, draft, baseline, loaded, loadError, error, ready, saving,
                   calls, rebased, edits, failures, downs>>

Retry ==
    /\ error /\ ready
    /\ error' = FALSE
    /\ UNCHANGED <<stored, draft, baseline, loaded, loadError, typing, ready, saving,
                   calls, rebased, edits, failures, downs>>

\* The pause after an edit is over: what can be saved is sent.  Reads that
\* started before no longer count.
Sendable == Patch(baseline, PlanSent(baseline, draft))
Autosave ==
    /\ Dirty /\ ready /\ ~saving /\ ~error /\ ~typing
    /\ Sendable # {}
    /\ saving' = TRUE /\ rebased' = FALSE
    /\ calls' = WithoutLoads(calls) \cup {Save(PlanSent(baseline, draft), Sendable)}
    /\ UNCHANGED <<stored, page, ready, edits, failures, downs>>

\* Mutant of Merged: the answer replaces the whole draft.
MergedWhole(c) == c.result
\* A response acknowledges only what it sent: pending settings and the edits
\* made while it was in flight stay.
Merged(c) ==
    [k \in Setting |-> IF draft[k] # c.sent[k] THEN draft[k] ELSE c.result[k]]

\* Mutant of SavingEnds: only a save that went well ends the saving.
SavingEndsWell(c) == saving' = (c.phase = "failed")
SavingEnds(c) == saving' = FALSE

SaveAnswered(c) ==
    /\ c.kind = "save"
    /\ IF c.phase = "served"
       THEN /\ baseline' = c.result /\ draft' = Merged(c)
            /\ UNCHANGED error
       ELSE /\ error' = (error \/ c.unedited)
            /\ UNCHANGED <<draft, baseline>>
    /\ SavingEnds(c)
    /\ calls' = calls \ {c}
    /\ UNCHANGED <<loaded, loadError, typing, rebased>>

Answer(c) ==
    /\ c.phase # "asked"
    /\ LoadAnswered(c) \/ SaveAnswered(c)
    /\ UNCHANGED <<stored, ready, edits, failures, downs>>

Patched(c) == [k \in Setting |-> IF k \in c.patch THEN c.sent[k] ELSE stored[k]]
\* Core carries a call out.  Only the settings of the patch change, and only
\* to a document that is valid as a whole.
Serve(c) ==
    /\ c.phase = "asked" /\ ready
    /\ IF Valid(Patched(c))
       THEN /\ stored' = Patched(c)
            /\ calls' = (calls \ {c}) \cup
                        {[c EXCEPT !.phase = "served", !.result = stored']}
       ELSE /\ calls' = (calls \ {c}) \cup {[c EXCEPT !.phase = "failed"]}
            /\ UNCHANGED stored
    /\ UNCHANGED <<page, ready, saving, rebased, edits, failures, downs>>

Fail(c) ==
    /\ c.phase # "failed" /\ (ready => failures < MaxFailures)
    /\ calls' = (calls \ {c}) \cup {[c EXCEPT !.phase = "failed"]}
    /\ failures' = IF ready THEN failures + 1 ELSE failures
    /\ UNCHANGED <<stored, page, ready, saving, rebased, edits, downs>>

Next ==
    \/ BecomeReady \/ GoDown \/ Reload \/ LeaveField \/ Retry \/ Autosave
    \/ \E k \in Setting, v \in Values \cup {Incomplete} : Edit(k, v)
    \/ \E c \in calls : Serve(c) \/ Fail(c) \/ Answer(c)

Spec == Init /\ [][Next]_vars
Served(kind) == \E c \in calls : c.kind = kind /\ (Serve(c) \/ Fail(c))
Answered(kind) == \E c \in calls : c.kind = kind /\ Answer(c)
\* The timer runs, Core comes back, and every call is answered.
Fairness ==
    /\ WF_vars(BecomeReady) /\ WF_vars(Autosave)
    /\ \A kind \in {"load", "save"} :
        WF_vars(Served(kind)) /\ WF_vars(Answered(kind))
FairSpec == Spec /\ Fairness

-----------------------------------------------------------------------------
\* One autosave at a time, always of a document that is valid as a whole and
\* with a reason to be sent, and nothing half typed ever reaches Core: not
\* even when the page patches a document that is no longer the stored one.
AutosaveInv ==
    /\ stored \in Document /\ draft \in Document /\ baseline \in Document
    /\ saving <=> \E c \in calls : c.kind = "save"
    /\ \A c \in calls : c.kind = "save" =>
        /\ Valid(c.sent) /\ c.patch # {}
        /\ \A d \in calls : d.kind = "save" => d = c
    /\ Valid(stored) /\ Valid(baseline)

\* An edit that is not saved yet is replaced by the user only: neither a
\* reconnection nor the answer to an earlier autosave takes it back.  The
\* exception is an autosave that was answered after the page, its changes all
\* taken back, took a reading over.
EditsAreKept ==
    [][\A k \in Setting :
         loaded /\ draft[k] # baseline[k] /\ draft'[k] # draft[k] /\ edits' = edits
           => saving /\ rebased]_vars

\* A change that can be saved never waits for ever in silence: it is saved, or
\* the page says that it was not, or that a redirect is still being typed.
ChangesAreSaved == []<>(error \/ typing \/ Sendable = {})
=============================================================================
