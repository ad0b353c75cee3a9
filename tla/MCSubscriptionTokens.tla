------------------------ MODULE MCSubscriptionTokens ------------------------
(***************************************************************************)
(* An instance of SubscriptionTokens for TLC.                              *)
(***************************************************************************)
EXTENDS SubscriptionTokens

CONSTANTS s1, s2

\* A bound of the model: the second service is there to sign in to the account of
\* the first, and nothing else is done with it.
Rival ==
    /\ cancel'[s2] = NoCancel /\ logout'[s2] = "idle"
    /\ \A c \in Caller : callers'[c].phase # "idle" => callers'[c].service = s1

MCSpec == Init /\ [][Next /\ Rival]_vars /\ Fairness
=============================================================================
