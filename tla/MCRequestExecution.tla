------------------------- MODULE MCRequestExecution -------------------------
(* Instances of RequestExecution for TLC.                                  *)
EXTENDS RequestExecution

\* Two accounts, the second in between two routes of the first; each
\* candidate has a target key of its own.
TwoAccounts == [c \in 1 .. N |-> IF c = 2 THEN "b" ELSE "a"]
OwnKey == [c \in 1 .. N |-> c]
OneRetry == [c \in 1 .. N |-> 1]
=============================================================================
