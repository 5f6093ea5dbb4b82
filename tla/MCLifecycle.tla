----------------------------- MODULE MCLifecycle -----------------------------
(* Lifecycle for TLC: the cfg files give the constants their values. *)
EXTENDS Lifecycle
=============================================================================
