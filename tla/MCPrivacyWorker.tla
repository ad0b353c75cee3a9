-------------------------- MODULE MCPrivacyWorker --------------------------
(* An instance of PrivacyWorker by itself, for TLC: two models, a request   *)
(* and no trouble.                                                          *)
EXTENDS PrivacyWorker
=============================================================================
