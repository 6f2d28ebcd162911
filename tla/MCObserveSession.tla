-------------------------- MODULE MCObserveSession --------------------------
(* Small instances of ObserveSession. *)
EXTENDS ObserveSession
=============================================================================
