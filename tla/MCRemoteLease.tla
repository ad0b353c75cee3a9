--------------------------- MODULE MCRemoteLease ---------------------------
(* Two devices whose clocks differ by one tick, leases of three ticks.      *)
EXTENDS RemoteLease

CONSTANTS d1, d2

MCDevice == {d1, d2}
MCOffset == [d \in MCDevice |-> IF d = d1 THEN 0 ELSE 1]
=============================================================================
