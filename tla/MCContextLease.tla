--------------------------- MODULE MCContextLease ---------------------------
(* Two processes of one identity; the first one reconnects, so two of its  *)
(* connections share a peer.                                               *)
EXTENDS ContextLease, TLC

CONSTANTS k1, k2, k3, pid1, pid2, user

PeerOf == k1 :> pid1 @@ k2 :> pid1 @@ k3 :> pid2

IdentityOf == pid1 :> user @@ pid2 :> user

Perms == Permutations(Tasks) \cup Permutations(Contexts)
=============================================================================
