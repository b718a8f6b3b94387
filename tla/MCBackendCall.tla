---------------------------- MODULE MCBackendCall ----------------------------
(* BackendCall for TLC: call d has no peer, the others come from peer p. *)
EXTENDS BackendCall

CONSTANTS d, p

MCPeer == [c \in Calls |-> IF c = d THEN NoPeer ELSE p]

=============================================================================
