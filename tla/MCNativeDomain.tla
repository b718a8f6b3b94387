---------------------------- MODULE MCNativeDomain ----------------------------
(* NativeDomain for TLC: two control threads, two ordinary threads. *)
EXTENDS NativeDomain
=============================================================================
