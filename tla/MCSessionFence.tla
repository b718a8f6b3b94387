---------------------------- MODULE MCSessionFence ----------------------------
(* SessionFence for TLC. *)
EXTENDS SessionFence

=============================================================================
